---- MODULE Spec2Model ----
(***************************************************************************)
(* PocketReport: the report pipeline (LoadMaterials, Analyst, Architect,   *)
(* Writer, AssembleReport, PrintSummary) over the shared store, the LLM    *)
(* retry wrapper, and the hierarchical outline model.                      *)
(*                                                                         *)
(* Strings that the code inspects (section indices, dictionary keys made   *)
(* with str(int)) are sequences of one-character strings; an Optional[T]   *)
(* is a sequence of length 0 (None) or 1; other texts are opaque tokens.   *)
(***************************************************************************)
EXTENDS Integers, Sequences, FiniteSets, TLC

(***************************************************************************)
(* Bounds of the model.                                                    *)
(***************************************************************************)
\* largest number of sections (of any depth) in an outline
MaxNodes == 4

(***************************************************************************)
(* Strings.                                                                *)
(***************************************************************************)
DigitChar == <<"0", "1", "2", "3", "4", "5", "6", "7", "8", "9">>

RECURSIVE str(_)
\* Python str(n) of a non-negative int: its decimal digits
str(n) ==
    IF n < 10 THEN <<DigitChar[n + 1]>>
    ELSE str(n \div 10) \o <<DigitChar[(n % 10) + 1]>>

RECURSIVE JoinDots(_)
\* ".".join(str(k) for k in path)
JoinDots(path) ==
    IF Len(path) = 0 THEN <<>>
    ELSE IF Len(path) = 1 THEN str(path[1])
    ELSE str(path[1]) \o <<".">> \o JoinDots(Tail(path))

None == <<>>
Some(x) == <<x>>

(***************************************************************************)
(* Outlines the generation client or an outline file can supply.           *)
(* A shape is a forest of nodes; Label gives every node its fields.        *)
(***************************************************************************)
RECURSIVE Forests(_)
\* all forests (sequences of trees) with exactly n nodes
Forests(n) ==
    IF n = 0 THEN {<<>>}
    ELSE UNION { { <<[subs |-> kids]>> \o rest : kids \in Forests(k), rest \in Forests(n - 1 - k) }
                 : k \in 0..(n - 1) }

\* how the author of an outline numbered its sections
IndexSchemes == {"path", "same"}

IndexFor(path, scheme) ==
    IF scheme = "path" THEN JoinDots(path) ELSE str(1)

RECURSIVE Label(_, _, _)
\* the Section objects of a forest; titles and descriptions name the position
Label(forest, prefix, scheme) ==
    [i \in 1..Len(forest) |->
        [index |-> IndexFor(Append(prefix, i), scheme),
         title |-> <<"T">> \o JoinDots(Append(prefix, i)),
         description |-> <<"D">> \o JoinDots(Append(prefix, i)),
         content |-> None,
         subsections |-> Label(forest[i].subs, Append(prefix, i), scheme)]]

Outlines ==
    { [title |-> "Report", sections |-> Label(f, <<>>, scheme)] :
        f \in UNION { Forests(n) : n \in 0..MaxNodes }, scheme \in IndexSchemes }

(***************************************************************************)
(* models.py: Section and ReportOutline.                                   *)
(***************************************************************************)
is_leaf(section) == Len(section.subsections) = 0

RECURSIVE Section_flatten(_)
RECURSIVE extend_flatten(_)
\* Section.flatten: the section itself if it is a leaf, else its children's leaves
Section_flatten(section) ==
    IF is_leaf(section) THEN <<section>>
    ELSE extend_flatten(section.subsections)

\* the loop `for sub in ...: leaves.extend(sub.flatten())`
extend_flatten(sections) ==
    IF Len(sections) = 0 THEN <<>>
    ELSE Section_flatten(Head(sections)) \o extend_flatten(Tail(sections))

\* variant: only the top-level list is looked at
flatten_top_level(outline) == outline.sections

\* ReportOutline.flatten
flatten(outline) == extend_flatten(outline.sections)

\* variant: leaves is the sections list itself, which the loop then extends
flatten_call_aliasing(outline) ==
    [returned |-> outline.sections \o flatten(outline),
     outline |-> [outline EXCEPT !.sections = @ \o flatten(outline)]]

\* outline.flatten() as a call: what it returns and the outline it leaves;
\* leaves is a new list, the only object that append and extend change
flatten_call(outline) ==
    [returned |-> flatten(outline), outline |-> outline]

\* ReportOutline.to_legacy_chapters: one dict per flattened leaf, numbered from 1
to_legacy_chapters(outline) ==
    LET leaves == flatten(outline) IN
    [i \in 1..Len(leaves) |->
        [index |-> i, title |-> leaves[i].title,
         description |-> leaves[i].description, content |-> leaves[i].content]]

RECURSIVE Section_get_by_index(_, _)
RECURSIVE first_found(_, _, _)
\* the loop over a list of sections: the first call that finds something
first_found(sections, index, i) ==
    IF i > Len(sections) THEN None
    ELSE LET found == Section_get_by_index(sections[i], index)
         IN IF found # None THEN found ELSE first_found(sections, index, i + 1)

\* variant: zeros in an index do not count ("1.10" is "1.1")
Section_get_by_index_loose(section, index) ==
    IF SelectSeq(section.index, LAMBDA ch : ch # "0")
          = SelectSeq(index, LAMBDA ch : ch # "0")
    THEN Some(section)
    ELSE first_found(section.subsections, index, 1)

\* Section.get_by_index: the section itself, else the first hit below it
Section_get_by_index(section, index) ==
    IF section.index = index THEN Some(section)
    ELSE first_found(section.subsections, index, 1)

\* ReportOutline.get_section_by_index
get_section_by_index(outline, index) == first_found(outline.sections, index, 1)

\* ReportOutline.to_legacy: one Chapter per top-level section, numbered from 1
to_legacy(outline) ==
    [title |-> outline.title,
     chapters |-> [i \in 1..Len(outline.sections) |->
        [index |-> i, title |-> outline.sections[i].title,
         description |-> outline.sections[i].description,
         content |-> outline.sections[i].content]]]

\* variant: the conversion keeps the outline but not the texts
to_hierarchical_without_content(legacy) ==
    [title |-> legacy.title,
     sections |-> [i \in 1..Len(legacy.chapters) |->
        [index |-> str(legacy.chapters[i].index),
         title |-> legacy.chapters[i].title,
         description |-> legacy.chapters[i].description,
         content |-> None,
         subsections |-> <<>>]]]

\* LegacyReportOutline.to_hierarchical: one top-level Section per chapter
to_hierarchical(legacy) ==
    [title |-> legacy.title,
     sections |-> [i \in 1..Len(legacy.chapters) |->
        [index |-> str(legacy.chapters[i].index),
         title |-> legacy.chapters[i].title,
         description |-> legacy.chapters[i].description,
         content |-> legacy.chapters[i].content,
         subsections |-> <<>>]]]

\* outline_serializer.convert_hierarchical_to_legacy: one Chapter per leaf
convert_hierarchical_to_legacy(outline) ==
    LET leaves == flatten(outline) IN
    [title |-> outline.title,
     chapters |-> [i \in 1..Len(leaves) |->
        [index |-> i, title |-> leaves[i].title,
         description |-> leaves[i].description, content |-> leaves[i].content]]]

\* variant: the level is not capped
get_heading_level_uncapped(section) ==
    LET dot_count == Cardinality({i \in 1..Len(section.index) : section.index[i] = "."})
    IN dot_count + 1

\* Section.get_heading_level: dots in the index plus one, at most 6
get_heading_level(section) ==
    LET dot_count == Cardinality({i \in 1..Len(section.index) : section.index[i] = "."})
    IN IF dot_count + 1 < 6 THEN dot_count + 1 ELSE 6

\* Section.get_heading_markdown: '#' * level, then the index (if asked) and the title
get_heading_markdown(section, include_index) ==
    [level |-> get_heading_level(section),
     index |-> IF include_index THEN Some(section.index) ELSE None,
     title |-> section.title]

(***************************************************************************)
(* outline_serializer.py: an outline as a dictionary, and the dictionary   *)
(* in a YAML or JSON file.  A scalar in a file is its text and whether it  *)
(* is quoted; a value read back carries the type the parser gave it.       *)
(***************************************************************************)
RECURSIVE section_to_dict(_)
section_to_dict(section) ==
    [type |-> Some(<<"s", "e", "c", "t", "i", "o", "n">>),
     index |-> Some(section.index),
     title |-> Some(section.title),
     description |-> Some(section.description),
     content |-> section.content,
     subsections |-> [i \in 1..Len(section.subsections) |->
                         section_to_dict(section.subsections[i])]]

\* _outline_to_dict; a value is None or Some(string)
outline_to_dict(outline) ==
    [title |-> Some(outline.title),
     sections |-> [i \in 1..Len(outline.sections) |->
                      section_to_dict(outline.sections[i])]]

IsDigits(t) == Len(t) > 0 /\ \A i \in 1..Len(t) : \E d \in 1..10 : DigitChar[d] = t[i]

NullText == <<"n", "u", "l", "l">>

\* the type a YAML parser gives an unquoted scalar
yaml_resolve(t) ==
    IF t = <<>> \/ t = NullText THEN "none"
    ELSE IF IsDigits(t) THEN "int"
    ELSE IF \E k \in 1..Len(t) : /\ t[k] = "."
                                  /\ IsDigits(SubSeq(t, 1, k - 1))
                                  /\ (k = Len(t) \/ IsDigits(SubSeq(t, k + 1, Len(t))))
         THEN "float"
    ELSE "str"

\* yaml.dump / json.dump of one value: None is null; JSON quotes every
\* string, YAML those that would not read back as a string
dump_scalar(format, value) ==
    IF value = None THEN [quoted |-> FALSE, text |-> NullText]
    ELSE [quoted |-> (format = "json" \/ yaml_resolve(value[1]) # "str"),
          text |-> value[1]]

\* yaml.safe_load / json.load of one scalar
load_scalar(format, scalar) ==
    IF scalar.quoted THEN [tag |-> "str", text |-> scalar.text]
    ELSE IF format = "json"
         THEN [tag |-> IF scalar.text = NullText THEN "none" ELSE "int",
               text |-> scalar.text]
    ELSE [tag |-> yaml_resolve(scalar.text), text |-> scalar.text]

RECURSIVE dump_section(_, _)
dump_section(format, d) ==
    [type |-> dump_scalar(format, d.type),
     index |-> dump_scalar(format, d.index),
     title |-> dump_scalar(format, d.title),
     description |-> dump_scalar(format, d.description),
     content |-> dump_scalar(format, d.content),
     subsections |-> [i \in 1..Len(d.subsections) |->
                         dump_section(format, d.subsections[i])]]

\* the file that save_outline_yaml / save_outline_json writes
dump(format, d) ==
    [title |-> dump_scalar(format, d.title),
     sections |-> [i \in 1..Len(d.sections) |-> dump_section(format, d.sections[i])]]

RECURSIVE load_section(_, _)
load_section(format, f) ==
    [type |-> load_scalar(format, f.type),
     index |-> load_scalar(format, f.index),
     title |-> load_scalar(format, f.title),
     description |-> load_scalar(format, f.description),
     content |-> load_scalar(format, f.content),
     subsections |-> [i \in 1..Len(f.subsections) |->
                         load_section(format, f.subsections[i])]]

\* the dictionary that load_outline_yaml / load_outline_json reads
load(format, f) ==
    [title |-> load_scalar(format, f.title),
     sections |-> [i \in 1..Len(f.sections) |-> load_section(format, f.sections[i])]]

RECURSIVE SectionDictValid(_)
\* Section(...) accepts the values: str for index, title and description,
\* str or None for content
SectionDictValid(d) ==
    /\ d.index.tag = "str" /\ d.title.tag = "str" /\ d.description.tag = "str"
    /\ d.content.tag \in {"str", "none"}
    /\ \A i \in 1..Len(d.subsections) : SectionDictValid(d.subsections[i])

RECURSIVE dict_to_section_untyped(_)
\* variant: the type tag selects what is read: only a "chapter" has content
dict_to_section_untyped(d) ==
    [index |-> d.index.text,
     title |-> d.title.text,
     description |-> d.description.text,
     content |-> IF d.type.text = <<"c", "h", "a", "p", "t", "e", "r">>
                    /\ d.content.tag = "str"
                 THEN Some(d.content.text) ELSE None,
     subsections |-> [i \in 1..Len(d.subsections) |->
                         dict_to_section_untyped(d.subsections[i])]]

RECURSIVE dict_to_section(_)
\* the type entry is not read
dict_to_section(d) ==
    [index |-> d.index.text,
     title |-> d.title.text,
     description |-> d.description.text,
     content |-> IF d.content.tag = "none" THEN None ELSE Some(d.content.text),
     subsections |-> [i \in 1..Len(d.subsections) |->
                         dict_to_section(d.subsections[i])]]

\* _dict_to_outline: the outline, or pydantic's ValidationError
dict_to_outline(d) ==
    IF d.title.tag = "str" /\ \A i \in 1..Len(d.sections) : SectionDictValid(d.sections[i])
    THEN [raised |-> None,
          outline |-> Some([title |-> d.title.text,
                            sections |-> [i \in 1..Len(d.sections) |->
                                             dict_to_section(d.sections[i])]])]
    ELSE [raised |-> Some("ValidationError"), outline |-> None]

(***************************************************************************)
(* Dictionaries: functions whose domain is the set of keys present.        *)
(***************************************************************************)
EmptyDict == <<>>
Has(d, k) == k \in DOMAIN d
\* d.get(k, default)
Get(d, k, default) == IF k \in DOMAIN d THEN d[k] ELSE default
\* d[k] = v
Put(d, k, v) == (k :> v) @@ d

(***************************************************************************)
(* flow.py: the three flows, their edges and the retry counts they set.    *)
(***************************************************************************)
Units == {"LoadMaterialsNode", "AnalystNode", "ArchitectNode", "WriterNode",
          "AssembleReportNode", "PrintSummaryNode"}

Flows == {"full", "minimal", "outline_only"}

NoNode == "none"

\* variant: the full flow wired without the analyst
Successor_skips_analyst(f, n) ==
    CASE f = "full" /\ n = "LoadMaterialsNode" -> "ArchitectNode"
      [] f = "full" /\ n = "ArchitectNode" -> "WriterNode"
      [] f = "full" /\ n = "WriterNode" -> "AssembleReportNode"
      [] f = "full" /\ n = "AssembleReportNode" -> "PrintSummaryNode"
      [] f \in {"minimal", "outline_only"} /\ n = "LoadMaterialsNode" -> "AnalystNode"
      [] f \in {"minimal", "outline_only"} /\ n = "AnalystNode" -> "ArchitectNode"
      [] f = "minimal" /\ n = "ArchitectNode" -> "PrintSummaryNode"
      [] OTHER -> NoNode

\* variant: the minimal flow wired through the writer and the assembler
Successor_minimal_writes(f, n) ==
    CASE f \in {"full", "minimal"} /\ n = "LoadMaterialsNode" -> "AnalystNode"
      [] f \in {"full", "minimal"} /\ n = "AnalystNode" -> "ArchitectNode"
      [] f \in {"full", "minimal"} /\ n = "ArchitectNode" -> "WriterNode"
      [] f \in {"full", "minimal"} /\ n = "WriterNode" -> "AssembleReportNode"
      [] f \in {"full", "minimal"} /\ n = "AssembleReportNode" -> "PrintSummaryNode"
      [] f = "outline_only" /\ n = "LoadMaterialsNode" -> "AnalystNode"
      [] f = "outline_only" /\ n = "AnalystNode" -> "ArchitectNode"
      [] OTHER -> NoNode

\* the unit after `n` along the "default" edge of flow `f`
Successor(f, n) ==
    CASE f = "full" /\ n = "LoadMaterialsNode" -> "AnalystNode"
      [] f = "full" /\ n = "AnalystNode" -> "ArchitectNode"
      [] f = "full" /\ n = "ArchitectNode" -> "WriterNode"
      [] f = "full" /\ n = "WriterNode" -> "AssembleReportNode"
      [] f = "full" /\ n = "AssembleReportNode" -> "PrintSummaryNode"
      [] f = "minimal" /\ n = "LoadMaterialsNode" -> "AnalystNode"
      [] f = "minimal" /\ n = "AnalystNode" -> "ArchitectNode"
      [] f = "minimal" /\ n = "ArchitectNode" -> "PrintSummaryNode"
      [] f = "outline_only" /\ n = "LoadMaterialsNode" -> "AnalystNode"
      [] f = "outline_only" /\ n = "AnalystNode" -> "ArchitectNode"
      [] OTHER -> NoNode

\* retry count of a unit whose constructor passes none to the engine
DefaultMaxRetries == 3

\* default of the max_retries parameter of the three generating units
NodeMaxRetries == 3

\* max_retries of unit `n` as built by flow `f` ("unit": built on its own)
MaxRetriesOf(f, n) ==
    IF n \in {"AnalystNode", "ArchitectNode", "WriterNode"}
    THEN (IF f = "full" THEN 3 ELSE IF f \in {"minimal", "outline_only"} THEN 2
          ELSE NodeMaxRetries)
    ELSE DefaultMaxRetries

(***************************************************************************)
(* call_llm.py: the retry wrapper, one loop iteration at a time.           *)
(* w is the wrapper's local state: attempt is the loop variable, calls the *)
(* number of call_llm invocations made, delays the sleeps taken.           *)
(***************************************************************************)
\* the except clause of call_llm: a failure of the HTTP request leaves call_llm
\* as RuntimeError, any other error as it is
call_llm_error(raised) ==
    IF raised = "RequestException" THEN "RuntimeError" ELSE raised

Pow2(n) == 2 ^ n

FreshWrapper ==
    [status |-> "running", attempt |-> 0, calls |-> 0, failed |-> 0,
     delays |-> <<>>, result |-> 0]

IdleWrapper == [FreshWrapper EXCEPT !.status = "idle"]

\* variant: the same one-unit sleep after every failure
call_llm_with_retry_fixed_sleep(w, ok, max_retries) ==
    IF ok
    THEN [w EXCEPT !.status = "returned", !.calls = @ + 1, !.result = w.attempt + 1]
    ELSE IF w.attempt = max_retries - 1
    THEN [w EXCEPT !.status = "raised", !.calls = @ + 1, !.failed = @ + 1]
    ELSE [w EXCEPT !.attempt = @ + 1, !.calls = @ + 1, !.failed = @ + 1,
                   !.delays = Append(@, 1)]

\* one iteration of `for attempt in range(max_retries)`; ok: call_llm returned
call_llm_with_retry(w, ok, max_retries) ==
    IF ok
    THEN [w EXCEPT !.status = "returned", !.calls = @ + 1, !.result = w.attempt + 1]
    ELSE IF w.attempt = max_retries - 1
    THEN [w EXCEPT !.status = "raised", !.calls = @ + 1, !.failed = @ + 1]
    ELSE [w EXCEPT !.attempt = @ + 1, !.calls = @ + 1, !.failed = @ + 1,
                   !.delays = Append(@, Pow2(w.attempt))]

VARIABLES
    flow,          \* which flow runs: one of Flows, or "unit" for one unit run alone
    shared,        \* the shared store: compartment name -> dictionary
    node,          \* the unit being activated
    phase,         \* "prep", "exec", "post"; "done" / "failed" once the run ended
    prep_res,      \* what prep returned
    exec_res,      \* what exec returned (the list of results, for the batch unit)
    item,          \* position of the batch item being executed (1-based)
    cur_retry,     \* the unit's retry counter around exec
    waits,         \* backoff delays the unit took around the current exec
    llm,           \* local state of the retry wrapper in progress
    calls,         \* call_llm invocations in the current activation (sub-item)
    history,       \* units activated so far, in order
    written,       \* compartments in the order they were first written
    error,         \* None, or the error that ended the run
    cause,         \* None, or the kind of the error as the failing call raised it
    files,         \* files written so far
    fs_rejected,   \* whether the file system refused a write
    givenOutline,  \* the outline the generation client / the outline file holds
    llmHeading,    \* heading level the client puts first in a section (0: none)
    lib,           \* the last call of a models.py / outline_serializer.py function
    proc,          \* the command-line process: exit status and what it printed
    conv           \* the materials directory, the converted files and their cache

vars == <<flow, shared, node, phase, prep_res, exec_res, item, cur_retry, waits,
          llm, calls, history, written, error, cause, files, fs_rejected,
          givenOutline, llmHeading, lib, proc, conv>>

env == <<flow, givenOutline, llmHeading, lib, proc, conv>>

\* no library function has been called on its own
IdleLib == [op |-> "none", args |-> <<>>, result |-> <<>>]

\* the process is running and has printed nothing
IdleProc == [status |-> "running", code |-> None, stdout |-> <<>>, stderr |-> <<>>,
             snapshot |-> None]

\* load_materials has not run: nothing seen, nothing returned
NoRun == [seen |-> EmptyDict, returned |-> EmptyDict, hits |-> {}, reconverted |-> {},
          changed |-> {}, raised |-> None]

\* an empty materials directory, no converted file, no cache file
NoConv == [sources |-> EmptyDict, converted |-> EmptyDict, cache |-> EmptyDict,
           last |-> NoRun]

(***************************************************************************)
(* main.py run_report_generation: the store a run starts from.             *)
(***************************************************************************)
InitialShared(outline_file) ==
    LET input == [topic |-> "topic", materials_dir |-> "materials",
                  output_dir |-> "output", cache_conversions |-> TRUE,
                  save_intermediate |-> TRUE]
    IN [input |-> IF outline_file = None THEN input
                  ELSE Put(input, "outline_file", outline_file[1])]

Init ==
    /\ flow \in Flows
    /\ \E outline_file \in {None, Some("outline.yaml")} :
          shared = InitialShared(outline_file)
    /\ node = "LoadMaterialsNode"
    /\ phase = "prep"
    /\ prep_res = None
    /\ exec_res = None
    /\ item = 1
    /\ cur_retry = 0
    /\ waits = <<>>
    /\ llm = IdleWrapper
    /\ calls = 0
    /\ history = <<>>
    /\ written = <<>>
    /\ error = None
    /\ cause = None
    /\ files = {}
    /\ fs_rejected = FALSE
    /\ givenOutline \in Outlines
    /\ llmHeading \in {0, 1}
    /\ lib = IdleLib
    /\ proc = IdleProc
    /\ conv = NoConv

(***************************************************************************)
(* The workflow engine: one activation is prep, exec under the unit's      *)
(* retry loop, post; the driver then follows the "default" edge.           *)
(***************************************************************************)
\* variant: the driver logs the error and goes on with the next unit
Raise_and_continue(kind, ph) ==
    /\ phase' = IF Successor(flow, node) = NoNode THEN "done" ELSE "prep"
    /\ error' = Some([kind |-> kind, node |-> node, phase |-> ph])
    /\ node' = Successor(flow, node)

\* the run ends with error `kind`, raised in phase `ph` of the current unit
Raise(kind, ph) ==
    /\ phase' = "failed"
    /\ error' = Some([kind |-> kind, node |-> node, phase |-> ph])
    /\ UNCHANGED node

\* prep of the current unit returned `p`: the activation goes on to exec (a
\* batch unit with no items has nothing to execute and goes on to post)
BeginWith(p, ph) ==
    /\ prep_res' = Some(p)
    /\ exec_res' = <<>>
    /\ phase' = ph
    /\ item' = 1
    /\ cur_retry' = 0
    /\ waits' = <<>>
    /\ llm' = IdleWrapper
    /\ calls' = 0
    /\ history' = Append(history, node)
    /\ UNCHANGED <<node, error, cause>>

BeginActivation(p) == BeginWith(p, "exec")

BeginBatch(items) == BeginWith(items, IF Len(items) = 0 THEN "post" ELSE "exec")

\* prep of the current unit raised: nothing is retried, the run ends
PrepRaise(kind) ==
    /\ Raise(kind, "prep")
    /\ cause' = Some(kind)
    /\ history' = Append(history, node)
    /\ UNCHANGED <<prep_res, exec_res, item, cur_retry, waits, llm, calls>>

\* exec raised `kind` on the unit's attempt cur_retry: retry after a backoff
\* delay, or let the error out once the configured attempts are used up
ExecRaise(kind, w) ==
    IF cur_retry = MaxRetriesOf(flow, node) - 1
    THEN /\ Raise(kind, "exec")
         /\ llm' = w
         /\ UNCHANGED <<cur_retry, waits>>
    ELSE /\ cur_retry' = cur_retry + 1
         /\ waits' = Append(waits, Pow2(cur_retry))
         /\ llm' = [w EXCEPT !.status = IF @ = "raised" THEN "retry" ELSE @]
         /\ UNCHANGED <<node, phase, error>>

\* post returned "default": the driver moves to the successor, if any
Advance ==
    LET next == IF flow \in Flows THEN Successor(flow, node) ELSE NoNode IN
    /\ node' = next
    /\ phase' = IF next = NoNode THEN "done" ELSE "prep"
    /\ UNCHANGED <<error, cause>>
    /\ cur_retry' = 0
    /\ waits' = <<>>
    /\ llm' = IdleWrapper
    /\ calls' = 0

\* first write of compartment c
NoteWrite(c) ==
    written' = IF Has(shared, c) THEN written ELSE Append(written, c)

\* the wrapper state the next call_llm iteration starts from
WrapperNow == IF llm.status = "running" THEN llm ELSE FreshWrapper

(***************************************************************************)
(* nodes.py: LoadMaterialsNode.                                            *)
(***************************************************************************)
LoadMaterialsPrep ==
    /\ node = "LoadMaterialsNode" /\ phase = "prep"
    /\ LET input == Get(shared, "input", EmptyDict) IN
       BeginActivation([materials_dir |-> Get(input, "materials_dir", "./materials"),
                        output_dir |-> Get(input, "output_dir", "./output"),
                        cache_conversions |-> Get(input, "cache_conversions", TRUE)])
    /\ UNCHANGED <<shared, written, files, fs_rejected, env>>

\* what load_materials raises: no directory or no supported file, a path that
\* is not a directory, the converter not installed
LoadMaterialsErrors == {"FileNotFoundError", "ValueError", "ImportError"}

\* the except clauses of exec: whatever load_materials raised, exec raises
\* RuntimeError
LoadMaterialsExecError(raised) ==
    IF raised = "ImportError" THEN "RuntimeError" ELSE "RuntimeError"

\* load_materials returns text of at least one file, or raises
LoadMaterialsExec ==
    /\ node = "LoadMaterialsNode" /\ phase = "exec"
    /\ \E raised \in {"none"} \cup LoadMaterialsErrors :
          IF raised = "none"
          THEN /\ exec_res' = Some([raw_content |-> "raw", file_count |-> 1,
                                    converted_files |-> <<>>,
                                    materials_dir |-> prep_res[1].materials_dir,
                                    output_dir |-> prep_res[1].output_dir])
               /\ phase' = "post"
               /\ cause' = None
               /\ UNCHANGED <<node, cur_retry, waits, llm, error>>
          ELSE /\ ExecRaise(LoadMaterialsExecError(raised), llm)
               /\ cause' = Some(raised)
               /\ UNCHANGED exec_res
    /\ UNCHANGED <<shared, prep_res, item, calls, history, written, files,
                   fs_rejected, env>>

LoadMaterialsPost ==
    /\ node = "LoadMaterialsNode" /\ phase = "post"
    /\ LET r == exec_res[1]
           m0 == Get(shared, "materials", EmptyDict)
           m1 == Put(Put(Put(Put(Put(m0, "raw_content", r.raw_content),
                                 "file_count", r.file_count),
                             "converted_files", r.converted_files),
                         "dir", r.materials_dir),
                     "output_dir", r.output_dir)
       IN shared' = Put(shared, "materials", m1)
    /\ NoteWrite("materials")
    \* conversion_info.json: a failed write is logged and ignored
    /\ \E fs_ok \in BOOLEAN :
          /\ files' = IF fs_ok THEN files \cup {"conversion_info.json"} ELSE files
          /\ fs_rejected' = (fs_rejected \/ ~fs_ok)
    /\ Advance
    /\ UNCHANGED <<prep_res, exec_res, item, history, env>>

(***************************************************************************)
(* nodes.py: AnalystNode.                                                  *)
(***************************************************************************)
AnalystPrepFails(store) ==
    Get(Get(store, "materials", EmptyDict), "raw_content", "") = ""

AnalystPrep ==
    /\ node = "AnalystNode" /\ phase = "prep"
    /\ IF AnalystPrepFails(shared)
       THEN PrepRaise("ValueError")
       ELSE BeginActivation(Get(Get(shared, "materials", EmptyDict), "raw_content", ""))
    /\ UNCHANGED <<shared, written, files, fs_rejected, env>>

\* one call_llm made by the wrapper inside exec, and what exec does after it
AnalystExec ==
    /\ node = "AnalystNode" /\ phase = "exec"
    /\ \E ok \in BOOLEAN, response \in {"", "summary"} :
          LET w == call_llm_with_retry(WrapperNow, ok, MaxRetriesOf(flow, node)) IN
          /\ calls' = calls + 1
          /\ CASE w.status = "returned" ->
                    /\ exec_res' = Some(response)
                    /\ phase' = "post"
                    /\ llm' = w
                    /\ cause' = None
                    /\ UNCHANGED <<node, cur_retry, waits, error>>
               [] w.status = "raised" ->
                    /\ ExecRaise(call_llm_error("RequestException"), w)
                    /\ cause' = Some("RequestException")
                    /\ UNCHANGED exec_res
               [] OTHER ->
                    /\ llm' = w
                    /\ UNCHANGED <<node, phase, exec_res, cur_retry, waits, error, cause>>
    /\ UNCHANGED <<shared, prep_res, item, history, written, files, fs_rejected, env>>

\* variant: post also drops the raw text it no longer needs
AnalystPost_drops_raw_content ==
    /\ node = "AnalystNode" /\ phase = "post"
    /\ shared' = Put(Put(shared, "analysis",
                         Put(Get(shared, "analysis", EmptyDict), "summary", exec_res[1])),
                     "materials", EmptyDict)
    /\ NoteWrite("analysis")
    /\ Advance
    /\ UNCHANGED <<prep_res, exec_res, item, history, files, fs_rejected, env>>

AnalystPost ==
    /\ node = "AnalystNode" /\ phase = "post"
    /\ shared' = Put(shared, "analysis",
                     Put(Get(shared, "analysis", EmptyDict), "summary", exec_res[1]))
    /\ NoteWrite("analysis")
    /\ Advance
    /\ UNCHANGED <<prep_res, exec_res, item, history, files, fs_rejected, env>>

(***************************************************************************)
(* nodes.py: ArchitectNode.                                                *)
(***************************************************************************)
\* Python truthiness of an Optional[str]
Truthy(opt) == opt # None /\ opt[1] # ""

OptGet(d, k) == IF k \in DOMAIN d THEN Some(d[k]) ELSE None

ArchitectPrepFails(store) ==
    /\ Get(Get(store, "analysis", EmptyDict), "summary", "") = ""
    /\ ~Truthy(OptGet(Get(store, "input", EmptyDict), "outline_file"))

ArchitectPrep ==
    /\ node = "ArchitectNode" /\ phase = "prep"
    /\ IF ArchitectPrepFails(shared)
       THEN PrepRaise("ValueError")
       ELSE BeginActivation(
              [topic |-> Get(Get(shared, "input", EmptyDict), "topic", "Academic Report"),
               analysis_summary |-> Get(Get(shared, "analysis", EmptyDict), "summary", ""),
               outline_file |-> OptGet(Get(shared, "input", EmptyDict), "outline_file")])
    /\ UNCHANGED <<shared, written, files, fs_rejected, env>>

\* outline.model_dump(): the outline as a plain dictionary
model_dump(outline) == [kind |-> "dict", title |-> Some(outline.title),
                        sections |-> Some(outline.sections)]

\* what call_llm can return in json mode: a parsed outline, a parsed object
\* without sections, or (the parse failed) the raw text
ArchitectResponses ==
    {model_dump(givenOutline),
     [kind |-> "dict", title |-> Some("Report"), sections |-> None],
     [kind |-> "str", text |-> "not json"]}

\* what load_outline raises: no such file, an unsupported format
LoadOutlineErrors == {"FileNotFoundError", "ValueError"}

\* the except clause of exec around load_outline
LoadOutlineExecError(raised) == "RuntimeError"

\* exec with an outline file: load_outline returns the outline or raises
ArchitectExecFile ==
    /\ node = "ArchitectNode" /\ phase = "exec"
    /\ Truthy(prep_res[1].outline_file)
    /\ \E raised \in {"none"} \cup LoadOutlineErrors :
          IF raised = "none"
          THEN /\ exec_res' = Some(model_dump(givenOutline))
               /\ phase' = "post"
               /\ cause' = None
               /\ UNCHANGED <<node, cur_retry, waits, llm, error>>
          ELSE /\ ExecRaise(LoadOutlineExecError(raised), llm)
               /\ cause' = Some(raised)
               /\ UNCHANGED exec_res
    /\ UNCHANGED <<shared, prep_res, item, calls, history, written, files,
                   fs_rejected, env>>

\* exec without an outline file: one call_llm made by the wrapper, and, once the
\* wrapper returned, the check that the response is a dictionary
ArchitectExec ==
    /\ node = "ArchitectNode" /\ phase = "exec"
    /\ ~Truthy(prep_res[1].outline_file)
    /\ \E ok \in BOOLEAN, response \in ArchitectResponses :
          LET w == call_llm_with_retry(WrapperNow, ok, MaxRetriesOf(flow, node)) IN
          /\ calls' = calls + 1
          /\ CASE w.status = "returned" /\ response.kind = "dict" ->
                    /\ exec_res' = Some(response)
                    /\ phase' = "post"
                    /\ llm' = w
                    /\ cause' = None
                    /\ UNCHANGED <<node, cur_retry, waits, error>>
               [] w.status = "returned" /\ response.kind = "str" ->
                    \* json.loads fails again: ValueError with response[:200]
                    /\ ExecRaise("ValueError", w)
                    /\ cause' = Some("JSONDecodeError")
                    /\ UNCHANGED exec_res
               [] w.status = "raised" ->
                    /\ ExecRaise(call_llm_error("RequestException"), w)
                    /\ cause' = Some("RequestException")
                    /\ UNCHANGED exec_res
               [] OTHER ->
                    /\ llm' = w
                    /\ UNCHANGED <<node, phase, exec_res, cur_retry, waits, error, cause>>
    /\ UNCHANGED <<shared, prep_res, item, history, written, files, fs_rejected, env>>

\* ReportOutline(**exec_res) validates: title and sections are required
ValidOutline(d) == d.title # None /\ d.sections # None

ArchitectPost ==
    /\ node = "ArchitectNode" /\ phase = "post"
    /\ NoteWrite("outline")
    /\ LET d == exec_res[1]
           o0 == Get(shared, "outline", EmptyDict)
       IN IF ~ValidOutline(d)
          THEN \* validation fails in the try block and again in the fallback
               /\ shared' = Put(shared, "outline", o0)
               /\ Raise("ValueError", "post")
               /\ cause' = Some("ValidationError")
               /\ UNCHANGED <<files, fs_rejected, cur_retry, waits, llm, calls>>
          ELSE LET outline == [title |-> d.title[1], sections |-> d.sections[1]]
                   o1 == Put(Put(Put(Put(o0, "title", outline.title),
                                     "sections", outline.sections),
                                 "object", outline),
                             "chapters", to_legacy_chapters(outline))
               IN /\ shared' = Put(shared, "outline", o1)
                  /\ \E fs_ok \in BOOLEAN :
                        IF fs_ok
                        THEN /\ files' = files \cup {"outline.yaml"}
                             /\ UNCHANGED fs_rejected
                             /\ Advance
                        ELSE \* save_outline raises; the fallback then reads
                             \* legacy_outline.chapters, which does not exist
                             /\ fs_rejected' = TRUE
                             /\ Raise("ValueError", "post")
                             /\ cause' = Some("OSError")
                             /\ UNCHANGED <<files, cur_retry, waits, llm, calls>>
    /\ UNCHANGED <<prep_res, exec_res, item, history, env>>

(***************************************************************************)
(* nodes.py: WriterNode (batch unit).                                      *)
(***************************************************************************)
\* Section(index=str(chapter.index), ...) for a legacy chapter
LegacySection(chapter) ==
    [index |-> str(chapter.index), title |-> chapter.title,
     description |-> chapter.description, content |-> None, subsections |-> <<>>]

\* variant: prep accepts an empty list of legacy chapters
WriterPrepFails_absent_only(store) ==
    /\ OptGet(Get(store, "outline", EmptyDict), "object") = None
    /\ ~Has(Get(store, "outline", EmptyDict), "chapters")

WriterPrepFails(store) ==
    /\ OptGet(Get(store, "outline", EmptyDict), "object") = None
    /\ Len(Get(Get(store, "outline", EmptyDict), "chapters", <<>>)) = 0

\* the sections to write: the outline's leaves, or the legacy chapters
leaf_sections(store) ==
    LET obj == OptGet(Get(store, "outline", EmptyDict), "object")
        chapters == Get(Get(store, "outline", EmptyDict), "chapters", <<>>)
    IN IF obj = None
       THEN [i \in 1..Len(chapters) |-> LegacySection(chapters[i])]
       ELSE flatten(obj[1])

\* prev_content[:500]
Excerpt(content) == [first500 |-> content]

\* the previous-section context of the item at position i (1-based)
previous_summary(store, leaves, i) ==
    IF i > 1 /\ Has(store, "writing") /\ Has(store["writing"], "sections")
    THEN LET prev == leaves[i - 1]
             prev_content == OptGet(store["writing"]["sections"], prev.index)
         IN IF prev_content # None
            THEN Some([title |-> prev.title, excerpt |-> Excerpt(prev_content[1])])
            ELSE None
    ELSE None

batch_items(store) ==
    LET leaves == leaf_sections(store) IN
    [i \in 1..Len(leaves) |->
        [section |-> leaves[i],
         section_path |-> <<leaves[i].title>>,
         report_title |-> Get(Get(store, "outline", EmptyDict), "title", "Report"),
         analysis_summary |-> Get(Get(store, "analysis", EmptyDict), "summary", ""),
         raw_content |-> Get(Get(store, "materials", EmptyDict), "raw_content", ""),
         previous_summary |-> previous_summary(store, leaves, i),
         section_index |-> i - 1,
         is_leaf |-> TRUE]]

WriterPrep ==
    /\ node = "WriterNode" /\ phase = "prep"
    /\ IF WriterPrepFails(shared)
       THEN PrepRaise("ValueError")
       ELSE BeginBatch(batch_items(shared))
    /\ UNCHANGED <<shared, written, files, fs_rejected, env>>

Abs(n) == IF n < 0 THEN 0 - n ELSE n

\* what exec makes of the client's response: the response itself when it starts
\* with a heading within one level of the expected one, else our heading first
section_content(section, response) ==
    LET has_heading == /\ response.heading > 0
                       /\ Abs(response.heading - get_heading_level(section)) <= 1
    IN [heading |-> IF has_heading THEN None
                    ELSE Some(get_heading_markdown(section, TRUE)),
        response |-> response]

\* variant: a finished sub-item opens the writing compartment at once
WriterExec_persists_each_result ==
    /\ node = "WriterNode" /\ phase = "exec"
    /\ LET items == prep_res[1]
           section == items[item].section
           response == [text_for |-> section.title, heading |-> llmHeading]
       IN \E ok \in BOOLEAN :
          LET w == call_llm_with_retry(WrapperNow, ok, MaxRetriesOf(flow, node)) IN
          /\ calls' = (IF llm.status = "returned" THEN 0 ELSE calls) + 1
          /\ CASE w.status = "returned" ->
                    /\ exec_res' = Append(exec_res, section_content(section, response))
                    /\ phase' = IF item = Len(items) THEN "post" ELSE "exec"
                    /\ item' = IF item = Len(items) THEN item ELSE item + 1
                    /\ llm' = w
                    /\ cur_retry' = 0
                    /\ waits' = <<>>
                    /\ cause' = None
                    /\ UNCHANGED <<node, error>>
               [] w.status = "raised" ->
                    /\ ExecRaise(call_llm_error("RequestException"), w)
                    /\ cause' = Some("RequestException")
                    /\ UNCHANGED <<exec_res, item>>
               [] OTHER ->
                    /\ llm' = w
                    /\ UNCHANGED <<node, phase, exec_res, item, cur_retry, waits, error, cause>>
    /\ shared' = IF phase' = "failed" \/ llm'.status # "returned" THEN shared
                 ELSE Put(shared, "writing",
                          [sections |-> EmptyDict, chapters |-> EmptyDict])
    /\ UNCHANGED <<prep_res, history, written, files, fs_rejected, env>>

\* exec of the current batch item: one call_llm made by the wrapper and, once it
\* returned, the section text; the next item starts with fresh retry counters
WriterExec ==
    /\ node = "WriterNode" /\ phase = "exec"
    /\ LET items == prep_res[1]
           section == items[item].section
           response == [text_for |-> section.title, heading |-> llmHeading]
       IN \E ok \in BOOLEAN :
          LET w == call_llm_with_retry(WrapperNow, ok, MaxRetriesOf(flow, node)) IN
          /\ calls' = (IF llm.status = "returned" THEN 0 ELSE calls) + 1
          /\ CASE w.status = "returned" ->
                    /\ exec_res' = Append(exec_res, section_content(section, response))
                    /\ phase' = IF item = Len(items) THEN "post" ELSE "exec"
                    /\ item' = IF item = Len(items) THEN item ELSE item + 1
                    /\ llm' = w
                    /\ cur_retry' = 0
                    /\ waits' = <<>>
                    /\ cause' = None
                    /\ UNCHANGED <<node, error>>
               [] w.status = "raised" ->
                    /\ ExecRaise(call_llm_error("RequestException"), w)
                    /\ cause' = Some("RequestException")
                    /\ UNCHANGED <<exec_res, item>>
               [] OTHER ->
                    /\ llm' = w
                    /\ UNCHANGED <<node, phase, exec_res, item, cur_retry, waits, error, cause>>
    /\ UNCHANGED <<shared, prep_res, history, written, files, fs_rejected, env>>

RECURSIVE StoreSections_by_position(_, _, _, _)
\* variant: both dictionaries keyed by the position in the batch
StoreSections_by_position(writing, items, results, i) ==
    IF i > Len(results) THEN writing
    ELSE StoreSections_by_position(
           [writing EXCEPT
              !["sections"] = Put(@, str(i), results[i]),
              !["chapters"] = Put(@, str(i), results[i])],
           items, results, i + 1)

RECURSIVE StoreSections_chapters_from_zero(_, _, _, _)
\* variant: chapter_index = i, the 0-based position
StoreSections_chapters_from_zero(writing, items, results, i) ==
    IF i > Len(results) THEN writing
    ELSE StoreSections_chapters_from_zero(
           [writing EXCEPT
              !["sections"] = Put(@, items[i].section.index, results[i]),
              !["chapters"] = Put(@, str(i - 1), results[i])],
           items, results, i + 1)

RECURSIVE StoreSections(_, _, _, _)
\* the loop of post from position i on: sections[str(index)] and chapters[str(i)]
StoreSections(writing, items, results, i) ==
    IF i > Len(results) THEN writing
    ELSE StoreSections(
           [writing EXCEPT
              !["sections"] = Put(@, items[i].section.index, results[i]),
              !["chapters"] = Put(@, str(i), results[i])],
           items, results, i + 1)

WriterPost ==
    /\ node = "WriterNode" /\ phase = "post"
    /\ LET w0 == IF Has(shared, "writing") THEN shared["writing"]
                 ELSE [sections |-> EmptyDict, chapters |-> EmptyDict]
       IN shared' = Put(shared, "writing", StoreSections(w0, prep_res[1], exec_res, 1))
    /\ NoteWrite("writing")
    /\ Advance
    /\ UNCHANGED <<prep_res, exec_res, item, history, files, fs_rejected, env>>

(***************************************************************************)
(* nodes.py: AssembleReportNode; save_report.py.                           *)
(***************************************************************************)
RECURSIVE int(_)
\* Python int(s) of a string of decimal digits
int(s) ==
    IF Len(s) = 0 THEN 0
    ELSE 10 * int(SubSeq(s, 1, Len(s) - 1))
         + (CHOOSE d \in 0..9 : DigitChar[d + 1] = s[Len(s)])

\* Python's order on strings of digits: character by character, a proper
\* prefix first
RECURSIVE StrLess(_, _)
StrLess(a, b) ==
    IF Len(a) = 0 THEN Len(b) > 0
    ELSE IF Len(b) = 0 THEN FALSE
    ELSE IF a[1] = b[1] THEN StrLess(Tail(a), Tail(b))
    ELSE int(<<a[1]>>) < int(<<b[1]>>)

RECURSIVE sorted_by_str(_)
\* variant: sorted(keys), the keys compared as strings
sorted_by_str(keys) ==
    IF keys = {} THEN <<>>
    ELSE LET least == CHOOSE k \in keys : \A o \in keys : k = o \/ StrLess(k, o)
         IN <<least>> \o sorted_by_str(keys \ {least})

RECURSIVE sorted_by_int(_)
\* sorted(keys, key=lambda x: int(x))
sorted_by_int(keys) ==
    IF keys = {} THEN <<>>
    ELSE LET least == CHOOSE k \in keys : \A o \in keys : int(k) <= int(o)
         IN <<least>> \o sorted_by_int(keys \ {least})

AssemblePrepFails(store) ==
    DOMAIN Get(Get(store, "writing", EmptyDict), "chapters", EmptyDict) = {}

AssemblePrep ==
    /\ node = "AssembleReportNode" /\ phase = "prep"
    /\ IF AssemblePrepFails(shared)
       THEN PrepRaise("ValueError")
       ELSE BeginActivation(
              [chapters_content |-> Get(Get(shared, "writing", EmptyDict), "chapters", EmptyDict),
               report_title |-> Get(Get(shared, "outline", EmptyDict), "title", "Report"),
               outline |-> Get(shared, "outline", EmptyDict),
               analysis_summary |-> Get(Get(shared, "analysis", EmptyDict), "summary", ""),
               output_dir |-> Get(Get(shared, "input", EmptyDict), "output_dir", "./output"),
               topic |-> Get(Get(shared, "input", EmptyDict), "topic", "Report")])
    /\ UNCHANGED <<shared, written, files, fs_rejected, env>>

\* the report body: the chapter texts in the order of their integer keys
report_content(chapters_content) ==
    LET sorted_indices == sorted_by_int(DOMAIN chapters_content)
    IN [k \in 1..Len(sorted_indices) |-> chapters_content[sorted_indices[k]]]

\* exec: assemble the body, build the metadata (the template load may raise)
AssembleExec ==
    /\ node = "AssembleReportNode" /\ phase = "exec"
    /\ \E ok \in BOOLEAN :
          IF ok
          THEN /\ exec_res' = Some(
                     [report_content |-> report_content(prep_res[1].chapters_content),
                      metadata |-> [title |-> prep_res[1].report_title,
                                    subtitle |-> prep_res[1].topic,
                                    abstract |-> prep_res[1].analysis_summary],
                      report_title |-> prep_res[1].report_title])
               /\ phase' = "post"
               /\ cause' = None
               /\ UNCHANGED <<node, cur_retry, waits, llm, error>>
          ELSE /\ ExecRaise("FileNotFoundError", llm)
               /\ cause' = Some("FileNotFoundError")
               /\ UNCHANGED exec_res
    /\ UNCHANGED <<shared, prep_res, item, calls, history, written, files,
                   fs_rejected, env>>

\* the parameters save_report declares
SaveReportParams == {"content", "output_path", "report_title", "timestamp"}

\* save_report called with keyword arguments kwargs: a keyword it does not
\* declare is a TypeError; else the file is written, or IOError is raised
save_report(kwargs, fs_ok) ==
    IF ~(DOMAIN kwargs \subseteq SaveReportParams)
    THEN [raised |-> Some("TypeError"), path |-> None]
    ELSE IF ~fs_ok
    THEN [raised |-> Some("IOError"), path |-> None]
    ELSE [raised |-> None,
          path |-> Some(IF Has(kwargs, "output_path") THEN kwargs["output_path"]
                        ELSE "./output/slug_timestamp.md")]

\* the keyword arguments post passes to save_report
SaveReportCall(final_report, report_title, output_dir) ==
    [content |-> final_report, report_title |-> report_title, output_dir |-> output_dir]

AssemblePost ==
    /\ node = "AssembleReportNode" /\ phase = "post"
    /\ NoteWrite("output")
    /\ \E fs_ok \in BOOLEAN :
       LET r == exec_res[1]
           final_report == [frontmatter |-> r.metadata, body |-> r.report_content]
           o1 == Put(Put(Get(shared, "output", EmptyDict), "report", final_report),
                     "metadata", r.metadata)
           saved == save_report(SaveReportCall(final_report, r.report_title,
                                               prep_res[1].output_dir), fs_ok)
       IN IF saved.raised # None
          THEN /\ shared' = Put(shared, "output", o1)
               /\ Raise(saved.raised[1], "post")
               /\ cause' = Some(saved.raised[1])
               /\ fs_rejected' = (fs_rejected \/ saved.raised[1] = "IOError")
               /\ UNCHANGED <<files, cur_retry, waits, llm, calls>>
          ELSE /\ shared' = Put(shared, "output", Put(o1, "path", saved.path[1]))
               /\ files' = files \cup {saved.path[1]}
               /\ UNCHANGED fs_rejected
               /\ Advance
    /\ UNCHANGED <<prep_res, exec_res, item, history, env>>

(***************************************************************************)
(* nodes.py: PrintSummaryNode.                                             *)
(***************************************************************************)
PrintSummaryPrep ==
    /\ node = "PrintSummaryNode" /\ phase = "prep"
    /\ BeginActivation([materials |-> Get(shared, "materials", EmptyDict),
                        analysis |-> Get(shared, "analysis", EmptyDict),
                        outline |-> Get(shared, "outline", EmptyDict),
                        writing |-> Get(shared, "writing", EmptyDict),
                        output |-> Get(shared, "output", EmptyDict)])
    /\ UNCHANGED <<shared, written, files, fs_rejected, env>>

PrintSummaryExec ==
    /\ node = "PrintSummaryNode" /\ phase = "exec"
    /\ exec_res' = Some(
          [files_loaded |-> Get(prep_res[1].materials, "file_count", 0),
           outline_title |-> Get(prep_res[1].outline, "title", "N/A"),
           chapters_written |-> Len(Get(prep_res[1].outline, "chapters", <<>>)),
           saved_to |-> Get(prep_res[1].output, "path", "N/A")])
    /\ phase' = "post"
    /\ UNCHANGED <<shared, node, prep_res, item, cur_retry, waits, llm, calls, history,
                   written, error, cause, files, fs_rejected, env>>

\* post only logs the summary
PrintSummaryPost ==
    /\ node = "PrintSummaryNode" /\ phase = "post"
    /\ Advance
    /\ UNCHANGED <<shared, prep_res, exec_res, item, history, written, files,
                   fs_rejected, env>>

Next ==
    \/ LoadMaterialsPrep
    \/ LoadMaterialsExec
    \/ LoadMaterialsPost
    \/ AnalystPrep
    \/ AnalystExec
    \/ AnalystPost
    \/ ArchitectPrep
    \/ ArchitectExecFile
    \/ ArchitectExec
    \/ ArchitectPost
    \/ WriterPrep
    \/ WriterExec
    \/ WriterPost
    \/ AssemblePrep
    \/ AssembleExec
    \/ AssemblePost
    \/ PrintSummaryPrep
    \/ PrintSummaryExec
    \/ PrintSummaryPost

Spec == Init /\ [][Next]_vars

(***************************************************************************)
(* Runs on long outlines: ten leaves and more, all at the top level or all *)
(* under one chapter.                                                      *)
(***************************************************************************)
\* largest number of leaves of a long outline
MaxWide == 11

\* n childless nodes side by side
Row(n) == [i \in 1..n |-> [subs |-> <<>>]]

WideOutlines ==
    { [title |-> "Report", sections |-> Label(f, <<>>, "path")] :
        f \in { Row(n) : n \in 9..MaxWide } \cup
              { <<[subs |-> Row(n)]>> : n \in 9..MaxWide } }

InitWide ==
    /\ flow \in Flows
    /\ \E outline_file \in {None, Some("outline.yaml")} :
          shared = InitialShared(outline_file)
    /\ node = "LoadMaterialsNode"
    /\ phase = "prep"
    /\ prep_res = None
    /\ exec_res = None
    /\ item = 1
    /\ cur_retry = 0
    /\ waits = <<>>
    /\ llm = IdleWrapper
    /\ calls = 0
    /\ history = <<>>
    /\ written = <<>>
    /\ error = None
    /\ cause = None
    /\ files = {}
    /\ fs_rejected = FALSE
    /\ givenOutline \in WideOutlines
    /\ llmHeading \in {0, 1}
    /\ lib = IdleLib
    /\ proc = IdleProc
    /\ conv = NoConv

SpecWide == InitWide /\ [][Next]_vars

(***************************************************************************)
(* The functions of models.py and outline_serializer.py called on their    *)
(* own, outside a run: each action is one call, lib records it.            *)
(***************************************************************************)
\* largest number of chapters of a legacy outline
MaxChapters == 3

\* a text a section or chapter may carry
Texts == {None, Some("text")}

\* legacy outlines of n chapters: any indices (in order from 1, or not), with
\* or without text
LegacyOutlines(n) ==
    { [title |-> "Legacy",
       chapters |-> [i \in 1..n |->
          [index |-> idx[i], title |-> <<"T">> \o str(i),
           description |-> <<"D">> \o str(i), content |-> txt[i]]]] :
      idx \in [1..n -> 0..(n + 1)], txt \in [1..n -> Texts] }

\* largest number of sections of an outline handed to a library function
MaxLibNodes == 3

RECURSIVE WithText(_, _)
\* the sections with content set on every leaf (mode "all"), on the first
\* top-level section only, as the empty string (mode "empty"), or nowhere
WithText(sections, mode) ==
    [i \in 1..Len(sections) |->
        [sections[i] EXCEPT
           !.content = IF mode = "all" /\ Len(sections[i].subsections) = 0
                       THEN Some(<<"4", "2">>)
                       ELSE IF mode = "empty" /\ i = 1 THEN Some(<<>>)
                       ELSE None,
           !.subsections = WithText(@, IF mode = "empty" THEN "none" ELSE mode)]]

\* outlines with titles that read like text or like a number
LibOutlines ==
    { [title |-> t, sections |-> WithText(Label(f, <<>>, scheme), mode)] :
        t \in {<<"R">>, <<"7">>},
        f \in UNION { Forests(n) : n \in 0..MaxLibNodes },
        scheme \in IndexSchemes,
        mode \in {"none", "all", "empty"} }

\* the variables of a run, which a library call leaves alone
run == <<flow, shared, node, phase, prep_res, exec_res, item, cur_retry, waits, llm,
         calls, history, written, error, cause, files, fs_rejected, givenOutline,
         llmHeading, proc, conv>>

\* legacy.to_hierarchical().to_legacy()
CallLegacyRoundTrip ==
    /\ lib.op = "none"
    /\ \E n \in 0..MaxChapters : \E legacy \in LegacyOutlines(n) :
          lib' = [op |-> "to_hierarchical.to_legacy", args |-> legacy,
                  result |-> [hierarchical |-> to_hierarchical(legacy),
                              legacy |-> to_legacy(to_hierarchical(legacy))]]
    /\ UNCHANGED run

\* save_outline(outline, path, format), then load_outline(path, format)
CallSaveLoad ==
    /\ lib.op = "none"
    /\ \E outline \in LibOutlines, format \in {"yaml", "json"} :
          lib' = [op |-> "save_outline.load_outline",
                  args |-> [outline |-> outline, format |-> format],
                  result |-> dict_to_outline(
                                load(format, dump(format, outline_to_dict(outline))))]
    /\ UNCHANGED run

\* the index strings asked for
IndexQueries ==
    {<<"1">>, <<"2">>, <<"1", ".", "1">>, <<"1", ".", "2">>, <<"1", ".", "1", "0">>,
     <<"1", ".", "0", "1">>, <<"1", "0">>, <<"1", ".", "1", ".", "1">>, <<>>}

\* outline.get_section_by_index(index)
CallGetSectionByIndex ==
    /\ lib.op = "none"
    /\ \E outline \in LibOutlines, index \in IndexQueries :
          lib' = [op |-> "get_section_by_index",
                  args |-> [outline |-> outline, index |-> index],
                  result |-> get_section_by_index(outline, index)]
    /\ UNCHANGED run

\* ReportOutline(**kwargs): title and sections are required fields, a keyword
\* that names no field is ignored, and the object has the two fields only
ReportOutline(kwargs) ==
    IF Has(kwargs, "title") /\ Has(kwargs, "sections")
    THEN [raised |-> None,
          object |-> Some([title |-> kwargs["title"], sections |-> kwargs["sections"]])]
    ELSE [raised |-> Some("ValidationError"), object |-> None]

\* object.name
getattr(object, name) ==
    IF name \in DOMAIN object
    THEN [raised |-> None, value |-> Some(object[name])]
    ELSE [raised |-> Some("AttributeError"), value |-> None]

\* the Chapter record of test_models, and a second one
TestChapter(i) ==
    [index |-> i, title |-> <<"T">> \o str(i), description |-> <<"D">> \o str(i),
     content |-> None]

\* keyword arguments given to ReportOutline: legacy chapters, sections, or both
OutlineKwargs ==
    LET chapters == {<<>>, <<TestChapter(1)>>, <<TestChapter(1), TestChapter(2)>>}
        sections == {<<>>, Label(<<[subs |-> <<>>]>>, <<>>, "path")}
    IN { [title |-> "Test Report", chapters |-> ch] : ch \in chapters } \cup
       { [title |-> "Test Report", sections |-> se] : se \in sections } \cup
       { [title |-> "Test Report", sections |-> se, chapters |-> ch] :
           se \in sections, ch \in chapters } \cup
       { [chapters |-> ch] : ch \in chapters }

\* outline = ReportOutline(**kwargs), then outline.chapters
CallReportOutline ==
    /\ lib.op = "none"
    /\ \E kwargs \in OutlineKwargs :
          LET made == ReportOutline(kwargs)
              read == IF made.raised = None THEN getattr(made.object[1], "chapters")
                      ELSE [raised |-> made.raised, value |-> None]
          IN lib' = [op |-> "ReportOutline", args |-> kwargs,
                     result |-> [raised |-> read.raised, object |-> made.object,
                                 chapters |-> read.value]]
    /\ UNCHANGED run

\* largest max_retries handed to call_llm_with_retry called on its own
MaxRetriesArg == 3

RECURSIVE call_llm_with_retry_loop(_, _, _)
\* call_llm_with_retry as a whole: the for loop over range(max_retries) and the
\* raise after it; oks[k] says whether the k-th call_llm returns
call_llm_with_retry_loop(w, oks, max_retries) ==
    IF w.attempt >= max_retries
    THEN \* the range is used up (or empty): raise RuntimeError("Failed to call LLM ...")
         [w EXCEPT !.status = "raised_after_loop"]
    ELSE LET after == call_llm_with_retry(w, oks[w.attempt + 1], max_retries)
         IN IF after.status = "running"
            THEN call_llm_with_retry_loop(after, oks, max_retries)
            ELSE after

\* call_llm_with_retry(system_prompt, user_prompt, max_retries=max_retries)
CallLLMWithRetry ==
    /\ lib.op = "none"
    /\ \E max_retries \in (0 - 1)..MaxRetriesArg :
          \E oks \in [1..max_retries -> BOOLEAN] :
             lib' = [op |-> "call_llm_with_retry",
                     args |-> [max_retries |-> max_retries, oks |-> oks],
                     result |-> call_llm_with_retry_loop(FreshWrapper, oks, max_retries)]
    /\ UNCHANGED run

\* largest number of flatten() calls in a row on one outline
MaxFlattenCalls == 3

RECURSIVE flatten_times(_, _)
\* n calls of flatten() in a row: the lists returned and the outline left
flatten_times(outline, n) ==
    IF n = 0 THEN [returns |-> <<>>, outline |-> outline]
    ELSE LET call == flatten_call(outline)
             rest == flatten_times(call.outline, n - 1)
         IN [returns |-> <<call.returned>> \o rest.returns, outline |-> rest.outline]

\* outline.flatten(), n times
CallFlatten ==
    /\ lib.op = "none"
    /\ \E outline \in LibOutlines, n \in 1..MaxFlattenCalls :
          lib' = [op |-> "flatten", args |-> [outline |-> outline, times |-> n],
                  result |-> flatten_times(outline, n)]
    /\ UNCHANGED run

\* largest number of dots in an index whose heading level is asked
MaxDots == 7

\* index strings with d dots: "3.3...3", "10.10...10", and d dots alone
DottedIndices(d) ==
    { JoinDots([i \in 1..(d + 1) |-> k]) : k \in {3, 10} } \cup {[i \in 1..d |-> "."]}

\* sections that share an index and differ in everything else
SectionsWithIndex(index) ==
    LET bare == [index |-> index, title |-> <<"T">>, description |-> <<"D">>,
                 content |-> None, subsections |-> <<>>]
    IN {bare,
        [bare EXCEPT !.title = <<"7">>, !.content = Some(<<"4", "2">>)],
        [bare EXCEPT !.description = <<"T">>,
                     !.subsections = <<[bare EXCEPT !.index = <<"1", ".", "1">>]>>]}

\* section.get_heading_level(), and the same on a section with the same index
CallGetHeadingLevel ==
    /\ lib.op = "none"
    /\ \E d \in 0..MaxDots : \E index \in DottedIndices(d) :
          \E section \in SectionsWithIndex(index), twin \in SectionsWithIndex(index) :
             lib' = [op |-> "get_heading_level",
                     args |-> [section |-> section, twin |-> twin],
                     result |-> [level |-> get_heading_level(section),
                                 twin |-> get_heading_level(twin)]]
    /\ UNCHANGED run

InitModels ==
    /\ flow = "unit"
    /\ shared = EmptyDict
    /\ node = NoNode
    /\ phase = "done"
    /\ prep_res = None
    /\ exec_res = None
    /\ item = 1
    /\ cur_retry = 0
    /\ waits = <<>>
    /\ llm = IdleWrapper
    /\ calls = 0
    /\ history = <<>>
    /\ written = <<>>
    /\ error = None
    /\ cause = None
    /\ files = {}
    /\ fs_rejected = FALSE
    /\ givenOutline = [title |-> "Report", sections |-> <<>>]
    /\ llmHeading = 0
    /\ lib = IdleLib
    /\ proc = IdleProc
    /\ conv = NoConv

NextModels ==
    \/ CallLegacyRoundTrip
    \/ CallSaveLoad
    \/ CallGetSectionByIndex
    \/ CallGetHeadingLevel
    \/ CallFlatten
    \/ CallReportOutline
    \/ CallLLMWithRetry

SpecModels == InitModels /\ [][NextModels]_vars

(***************************************************************************)
(* One unit activated on its own, node.run(shared), on a store somebody    *)
(* else filled: each compartment absent, empty or populated.               *)
(***************************************************************************)
\* largest outline a hand-filled store holds
MaxUnitNodes == 2

UnitOutlines ==
    { [title |-> "Report", sections |-> Label(f, <<>>, scheme)] :
        f \in UNION { Forests(n) : n \in 0..MaxUnitNodes }, scheme \in IndexSchemes }

\* a dictionary that may lack key k: the values vs, or no entry
WithOrWithout(d, k, vs) == {d} \cup { Put(d, k, v) : v \in vs }

\* text of a section written earlier
EarlierText(i) ==
    [heading |-> None, response |-> [text_for |-> <<"T">> \o str(i), heading |-> 1]]

SampleStores(outline) ==
    LET input == [topic |-> "Test Topic", materials_dir |-> "test_materials"]
        inputs == WithOrWithout(input, "outline_file", {"outline.yaml"})
        materials == {[raw_content |-> "", file_count |-> 0],
                      [raw_content |-> "Test content", file_count |-> 2]}
        analyses == {[summary |-> ""], [summary |-> "Test analysis summary"]}
        legacy == <<[index |-> 1, title |-> <<"T", "1">>, description |-> <<"D", "1">>],
                    [index |-> 2, title |-> <<"T", "2">>, description |-> <<"D", "2">>]>>
        outlines == {[title |-> "Test Report", chapters |-> <<>>],
                     [title |-> "Test Report", chapters |-> legacy],
                     [title |-> outline.title, sections |-> outline.sections,
                      object |-> outline, chapters |-> to_legacy_chapters(outline)]}
        writings == {[sections |-> EmptyDict, chapters |-> EmptyDict],
                     [sections |-> (str(1) :> EarlierText(1)) @@ EmptyDict,
                      chapters |-> (str(1) :> EarlierText(1)) @@
                                   (str(2) :> EarlierText(2)) @@ EmptyDict]}
    IN UNION { WithOrWithout(s3, "writing", writings) :
          s3 \in UNION { WithOrWithout(s2, "outline", outlines) :
          s2 \in UNION { WithOrWithout(s1, "analysis", analyses) :
          s1 \in UNION { WithOrWithout([input |-> i], "materials", materials) :
          i \in inputs } } } }

InitUnit ==
    /\ flow = "unit"
    /\ node \in Units
    /\ givenOutline \in UnitOutlines
    /\ shared \in SampleStores(givenOutline)
    /\ phase = "prep"
    /\ prep_res = None
    /\ exec_res = None
    /\ item = 1
    /\ cur_retry = 0
    /\ waits = <<>>
    /\ llm = IdleWrapper
    /\ calls = 0
    /\ history = <<>>
    /\ written = <<>>
    /\ error = None
    /\ cause = None
    /\ files = {}
    /\ fs_rejected = FALSE
    /\ llmHeading \in {0, 1}
    /\ lib = IdleLib
    /\ proc = IdleProc
    /\ conv = NoConv

SpecUnit == InitUnit /\ [][Next]_vars

(***************************************************************************)
(* main.py: the command line around a run.  print() writes to the standard *)
(* output stream; main.py hands nothing to the standard error stream.      *)
(***************************************************************************)
\* print(text) of a message that formats error e (None: no error in it)
printed(p, text, e) == [p EXCEPT !.stdout = Append(@, [text |-> text, error |-> e])]

\* sys.exit(code); a main() that returns ends the process with status 0
exit(p, code) == [p EXCEPT !.status = "exited", !.code = Some(code)]

\* the copy of the store that _save_intermediate_results hands to
\* save_intermediate: the comprehension over shared.items(), then the
\* materials entry of the copy without raw_content
shared_copy(store) ==
    LET kept == { k \in DOMAIN store :
                    k # "materials" \/ ~Has(store[k], "raw_content") }
        copy == [k \in kept |-> store[k]]
    IN IF "materials" \in kept
       THEN [copy EXCEPT !["materials"] =
                [k \in (DOMAIN @) \ {"raw_content"} |-> @[k]]]
       ELSE copy

\* every variable but proc and files
beside_main == <<flow, shared, node, phase, prep_res, exec_res, item, cur_retry, waits,
                 llm, calls, history, written, error, cause, fs_rejected,
                 givenOutline, llmHeading, lib, conv>>

\* run_report_generation finds no materials directory, or no outline file at
\* the path given: FileNotFoundError before the flow is built
MainRejects ==
    /\ proc.status = "running" /\ phase = "prep" /\ history = <<>>
    /\ node = "LoadMaterialsNode"
    /\ LET e == Some([kind |-> "FileNotFoundError", node |-> NoNode, phase |-> "start"])
       IN /\ error' = e
          /\ proc' = exit(printed(proc, "Error", e), 1)
    /\ cause' = Some("FileNotFoundError")
    /\ phase' = "failed"
    /\ UNCHANGED <<flow, shared, node, prep_res, exec_res, item, cur_retry, waits, llm,
                   calls, history, written, files, fs_rejected, givenOutline,
                   llmHeading, lib, conv>>

\* flow.run raised: run_report_generation prints and raises again, main prints
\* and exits with status 1
MainFails ==
    /\ proc.status = "running" /\ phase = "failed"
    /\ proc' = exit(printed(printed(proc, "Report generation failed", error),
                            "Error", error), 1)
    /\ UNCHANGED <<beside_main, files>>

\* flow.run returned: the messages, the intermediate results (if asked for),
\* and the return of main
MainReturns ==
    /\ proc.status = "running" /\ phase = "done"
    /\ LET p1 == printed(proc, "Report generation completed successfully", None)
           p2 == IF Has(shared, "output") /\ Has(shared["output"], "path")
                 THEN printed(p1, "Report saved to", None) ELSE p1
       IN IF Get(shared["input"], "save_intermediate", FALSE)
          THEN \E saved \in BOOLEAN :
                  IF saved
                  THEN /\ proc' = exit([printed(p2, "Intermediate results saved", None)
                                           EXCEPT !.snapshot = Some(shared_copy(shared))], 0)
                       /\ files' = files \cup {"intermediate/shared_store.json"}
                  ELSE \* a save raised before the snapshot was handed over
                       /\ proc' = exit(printed(p2, "Warning: Could not save intermediate results",
                                               Some([kind |-> "OSError", node |-> NoNode,
                                                     phase |-> "save"])), 0)
                       /\ UNCHANGED files
          ELSE /\ proc' = exit(p2, 0)
               /\ UNCHANGED files
    /\ UNCHANGED beside_main

InitMain ==
    /\ flow \in Flows
    /\ \E outline_file \in {None, Some("outline.yaml")} :
          shared = InitialShared(outline_file)
    /\ node = "LoadMaterialsNode"
    /\ phase = "prep"
    /\ prep_res = None
    /\ exec_res = None
    /\ item = 1
    /\ cur_retry = 0
    /\ waits = <<>>
    /\ llm = IdleWrapper
    /\ calls = 0
    /\ history = <<>>
    /\ written = <<>>
    /\ error = None
    /\ cause = None
    /\ files = {}
    /\ fs_rejected = FALSE
    /\ givenOutline \in UnitOutlines
    /\ llmHeading \in {0, 1}
    /\ lib = IdleLib
    /\ proc = IdleProc
    /\ conv = NoConv

\* the driver is the only thread of control and every phase terminates: a run
\* that can take a step takes one
SpecTermination == InitMain /\ [][Next]_vars /\ WF_vars(Next)

NextMain ==
    \/ Next
    \/ MainRejects
    \/ MainFails
    \/ MainReturns

SpecMain == InitMain /\ [][NextMain]_vars

(***************************************************************************)
(* load_materials.py: runs of load_materials over one materials directory  *)
(* and one directory of converted files, with the cache file kept there.   *)
(* conv.sources is the materials directory (file -> content), conv.cache   *)
(* the cache file, conv.converted the converted files (name -> text),      *)
(* conv.last what the run just finished saw and returned (NoRun once the   *)
(* directory has changed since).                                           *)
(***************************************************************************)
\* largest number of different contents a source file takes
MaxContents == 2

\* the files the materials directory may hold, as sorted(directory.rglob('*'))
\* lists them
SourceFiles == <<"a.docx", "a.pdf", "b.txt", "n.md">>

\* file_path.suffix.lower()
Suffix(f) ==
    CASE f = "a.docx" -> ".docx" [] f = "a.pdf" -> ".pdf" [] f = "b.txt" -> ".txt"
      [] f = "n.md" -> ".md"

\* relative_path.stem
Stem(f) ==
    CASE f = "a.docx" -> "a" [] f = "a.pdf" -> "a" [] f = "b.txt" -> "b"
      [] f = "n.md" -> "n"

markdown_extensions == {".md", ".markdown"}
convert_extensions == {".pdf", ".docx", ".txt"}

\* _compute_file_hash: SHA-256 of the content (equal only for equal contents)
compute_file_hash(content) == [sha256 |-> content]

\* _convert_file: the markdown of the file, or the error text when the
\* converter raised; either one is what the call writes and returns
convert_file(f, content, converter_ok) ==
    [of |-> f, content |-> content, error |-> ~converter_ok]

\* the dictionary without key k
Without(d, k) == [j \in (DOMAIN d) \ {k} |-> d[j]]

RECURSIVE load_loop(_, _, _, _)
\* the loop over the files from position i on; acc holds the cache, the
\* converted directory and what the run returns so far
load_loop(i, sources, failing, acc) ==
    IF i > Len(SourceFiles) THEN acc
    ELSE
      LET f == SourceFiles[i] IN
      IF ~Has(sources, f) THEN load_loop(i + 1, sources, failing, acc)
      ELSE
        LET content == sources[f]
            file_hash == compute_file_hash(content)
            converted_path == Stem(f)
            cache_key == f
            seen == [acc EXCEPT !.last.seen = Put(@, f, content),
                                !.last.changed =
                                   IF Has(acc.cache, cache_key)
                                      /\ acc.cache[cache_key].hash # file_hash
                                   THEN @ \cup {f} ELSE @]
        IN
        IF Suffix(f) \in markdown_extensions
        THEN load_loop(i + 1, sources, failing,
                [seen EXCEPT !.last.returned =
                    Put(@, f, [of |-> f, content |-> content, error |-> FALSE])])
        ELSE IF Suffix(f) \in convert_extensions
        THEN IF /\ Has(acc.cache, cache_key)
                /\ acc.cache[cache_key].hash = file_hash
                /\ Has(acc.converted, converted_path)
             THEN \* use the cached conversion: read converted_path
                  load_loop(i + 1, sources, failing,
                     [seen EXCEPT !.last.returned = Put(@, f, acc.converted[converted_path]),
                                  !.last.hits = @ \cup {f}])
             ELSE \* convert, write converted_path, note the hash
                  LET text == convert_file(f, content, f \notin failing) IN
                  load_loop(i + 1, sources, failing,
                     [seen EXCEPT !.converted = Put(@, converted_path, text),
                                  !.cache = Put(@, cache_key, [hash |-> file_hash]),
                                  !.last.returned = Put(@, f, text),
                                  !.last.reconverted = @ \cup {f}])
        ELSE load_loop(i + 1, sources, failing, seen)

\* load_materials(directory, output_dir, cache_conversions=True): the cache
\* file is loaded, the files are gone through, the cache file is saved; no
\* supported file at all is FileNotFoundError (after the cache was saved)
load_materials(c, failing) ==
    LET done == load_loop(1, c.sources, failing, [c EXCEPT !.last = NoRun])
    IN IF DOMAIN done.last.returned = {}
       THEN [done EXCEPT !.last.raised = Some("FileNotFoundError")]
       ELSE done

\* every variable but conv
beside_conv == <<flow, shared, node, phase, prep_res, exec_res, item, cur_retry, waits,
                 llm, calls, history, written, error, cause, files, fs_rejected,
                 givenOutline, llmHeading, lib, proc>>

\* one run of load_materials; the converter works in this run, or fails on
\* every file it is given
LoadMaterialsRun ==
    /\ \E failing \in {{}, DOMAIN conv.sources} :
          conv' = load_materials(conv, failing)
    /\ UNCHANGED beside_conv

\* somebody puts file f with content c into the materials directory, or
\* changes its content to c
WriteSource ==
    /\ \E i \in 1..Len(SourceFiles), c \in 1..MaxContents :
          /\ Get(conv.sources, SourceFiles[i], 0) # c
          /\ conv' = [conv EXCEPT !.sources = Put(@, SourceFiles[i], c), !.last = NoRun]
    /\ UNCHANGED beside_conv

\* somebody removes file f from the materials directory
RemoveSource ==
    /\ \E f \in DOMAIN conv.sources :
          conv' = [conv EXCEPT !.sources = Without(@, f), !.last = NoRun]
    /\ UNCHANGED beside_conv

NextCache ==
    \/ LoadMaterialsRun
    \/ WriteSource
    \/ RemoveSource

SpecCache == InitModels /\ [][NextCache]_vars

(***************************************************************************)
(* Positions in an outline: a path is the sequence of child positions from *)
(* the top-level list down to a section.                                   *)
(***************************************************************************)
RECURSIVE PathsIn(_)
PathsIn(sections) ==
    UNION { {<<i>>} \cup { <<i>> \o q : q \in PathsIn(sections[i].subsections) }
            : i \in 1..Len(sections) }

RECURSIVE SectionAt(_, _)
SectionAt(sections, path) ==
    IF Len(path) = 1 THEN sections[path[1]]
    ELSE SectionAt(sections[path[1]].subsections, Tail(path))

\* p comes before q in depth-first left-to-right order (neither a prefix of the other)
Before(p, q) ==
    \E k \in 1..Len(p) :
        /\ k <= Len(q)
        /\ SubSeq(p, 1, k - 1) = SubSeq(q, 1, k - 1)
        /\ p[k] < q[k]

LeafPaths(outline) ==
    { p \in PathsIn(outline.sections) : Len(SectionAt(outline.sections, p).subsections) = 0 }

\* position of leaf path p among the leaves, in depth-first order
LeafRank(outline, p) == Cardinality({ q \in LeafPaths(outline) : Before(q, p) }) + 1

\* the outline a run works on once the architect stored it
StoredOutline == shared["outline"]["object"]
HasStoredOutline == Has(shared, "outline") /\ Has(shared["outline"], "object")

\* the sections the writer prepared, in order
PreparedSections == [i \in 1..Len(prep_res[1]) |-> prep_res[1][i].section]

\* the writer prepared its batch from a stored hierarchical outline
WriterPrepared ==
    /\ node = "WriterNode" /\ phase \in {"exec", "post"} /\ HasStoredOutline

\* C1: flatten() of an outline returns exactly its sections without
\* subsections, each once, in depth-first left-to-right order, and no section
\* that has a subsection; checked on the outline supplied to the run and on the
\* leaves the writer obtained from flatten().
C1_FlattenIsLeavesInOrder ==
    /\ LET leaves == flatten(givenOutline) IN
       /\ Len(leaves) = Cardinality(LeafPaths(givenOutline))
       /\ \A p \in LeafPaths(givenOutline) :
             leaves[LeafRank(givenOutline, p)] = SectionAt(givenOutline.sections, p)
       /\ \A i \in 1..Len(leaves) : Len(leaves[i].subsections) = 0
    /\ WriterPrepared =>
          /\ Len(prep_res[1]) = Cardinality(LeafPaths(StoredOutline))
          /\ \A p \in LeafPaths(StoredOutline) :
                PreparedSections[LeafRank(StoredOutline, p)]
                   = SectionAt(StoredOutline.sections, p)

\* a nested outline with several leaves, one of them below the top level and
\* after a section that has subsections, has been flattened by the writer
C1_Witness ==
    /\ WriterPrepared
    /\ Len(prep_res[1]) >= 2
    /\ \E p \in LeafPaths(StoredOutline) : Len(p) >= 2
    /\ Cardinality(PathsIn(StoredOutline.sections)) > Len(prep_res[1])

\* C2: to_legacy() of an outline has exactly len(flatten()) chapters, and
\* chapter i has integer index i and the title and description of the i-th
\* flattened leaf.
C2_ToLegacyFollowsFlatten ==
    LET legacy == to_legacy(givenOutline)
        leaves == flatten(givenOutline)
    IN /\ Len(legacy.chapters) = Len(leaves)
       /\ \A i \in 1..Len(legacy.chapters) :
             /\ legacy.chapters[i].index = i
             /\ i <= Len(leaves)
             /\ legacy.chapters[i].title = leaves[i].title
             /\ legacy.chapters[i].description = leaves[i].description

(***************************************************************************)
(* Order of the full flow and the compartment each unit writes.            *)
(***************************************************************************)
FullOrder == <<"LoadMaterialsNode", "AnalystNode", "ArchitectNode", "WriterNode",
               "AssembleReportNode", "PrintSummaryNode">>

CompartmentOrder == <<"materials", "analysis", "outline", "writing", "output">>

IsPrefix(s, t) == Len(s) <= Len(t) /\ \A i \in 1..Len(s) : s[i] = t[i]

\* position of unit n in the full flow
PositionOf(n) == CHOOSE i \in 1..Len(FullOrder) : FullOrder[i] = n

\* compartments owned by the units after position i
OwnedAfter(i) == { CompartmentOrder[j] : j \in (i + 1)..Len(CompartmentOrder) }

\* C3: in the full flow from a store holding only input, units are activated
\* one at a time in the order LoadMaterials, Analyst, Architect, Writer,
\* AssembleReport, PrintSummary, their compartments are first written in the
\* order materials, analysis, outline, writing, output, and while a unit's
\* prepare phase runs no compartment owned by a later unit is in the store.
C3_FullFlowOrder ==
    flow = "full" =>
        /\ IsPrefix(history, FullOrder)
        /\ IsPrefix(written, CompartmentOrder)
        /\ node \in Units /\ phase = "prep" =>
              /\ history = SubSeq(FullOrder, 1, PositionOf(node) - 1)
              /\ DOMAIN shared \cap OwnedAfter(PositionOf(node)) = {}

\* the fifth unit is being activated with the four earlier compartments written
C3_Witness ==
    /\ flow = "full"
    /\ node = "AssembleReportNode" /\ phase = "exec"
    /\ history = SubSeq(FullOrder, 1, 5)
    /\ written = SubSeq(CompartmentOrder, 1, 4)

\* the run failed for a reason outside the pipeline's own code: a prepare or
\* execute phase failed, the generated outline was not an outline, or the
\* file system refused a write
FailedFromOutside ==
    \/ error[1].phase \in {"prep", "exec"}
    \/ fs_rejected
    \/ error[1].node = "ArchitectNode" /\ ~ValidOutline(exec_res[1])

\* C4: a run of the full flow in which every prepare and execute phase
\* succeeds and the file system accepts writes does not fail; it ends after
\* PrintSummaryNode with all six units activated and output.report,
\* output.metadata and output.path set, the path being the one save_report
\* returned.
C4_FullFlowSucceeds ==
    flow = "full" =>
        /\ phase = "failed" => FailedFromOutside
        /\ phase = "done" =>
              /\ history = FullOrder
              /\ Has(shared, "output")
              /\ {"report", "metadata", "path"} \subseteq DOMAIN shared["output"]
              /\ shared["output"]["path"] \in files

\* C5: when call_llm fails k times and then succeeds, k < max_retries, the
\* wrapper returns the result of attempt k+1 after exactly k+1 calls and k
\* backoff delays; the delay after the attempt with loop number a (counted
\* from 0, as the code counts) is 2^a, so each is longer than the one before.
C5_RetryThenSuccess ==
    llm.status = "returned" =>
        LET k == llm.failed IN
        /\ k < MaxRetriesOf(flow, node)
        /\ llm.result = k + 1
        /\ llm.calls = k + 1
        /\ Len(llm.delays) = k
        /\ \A j \in 1..k : llm.delays[j] = 2 ^ (j - 1)
        /\ \A j \in 1..(k - 1) : llm.delays[j] < llm.delays[j + 1]

\* two failures, then success on the third attempt with max_retries = 3
C5_Witness ==
    /\ llm.status = "returned"
    /\ llm.failed = 2
    /\ MaxRetriesOf(flow, node) = 3
    /\ llm.delays = <<1, 2>>

(***************************************************************************)
(* Ownership of compartments, in any of the flows.                         *)
(***************************************************************************)
Owns(n) ==
    CASE n = "LoadMaterialsNode" -> {"materials"}
      [] n = "AnalystNode" -> {"analysis"}
      [] n = "ArchitectNode" -> {"outline"}
      [] n = "WriterNode" -> {"writing"}
      [] n = "AssembleReportNode" -> {"output"}
      [] OTHER -> {}

RECURSIVE Downstream(_, _)
\* the units after n in flow f
Downstream(f, n) ==
    IF f \notin Flows \/ Successor(f, n) = NoNode THEN {}
    ELSE {Successor(f, n)} \cup Downstream(f, Successor(f, n))

\* an execute phase has failed for good
ExecError == error # None /\ error[1].phase = "exec"

\* C6: when a unit's execute phase has failed on all max_retries attempts the
\* error leaves the activation and the run: the run is over with that unit as
\* the last one activated, exactly max_retries attempts were made, neither its
\* compartment nor a later unit's is written, and nothing happens afterwards.
C6_ExhaustedRetriesEndRun ==
    /\ [](phase = "exec" => cur_retry < MaxRetriesOf(flow, node))
    /\ [](ExecError =>
            /\ phase = "failed"
            /\ error[1].node = node
            /\ history[Len(history)] = node
            /\ cur_retry = MaxRetriesOf(flow, node) - 1
            /\ Len(waits) = MaxRetriesOf(flow, node) - 1
            /\ \A u \in {node} \cup Downstream(flow, node) :
                  DOMAIN shared \cap Owns(u) = {})
    /\ [][~ExecError]_vars

\* the writer's execute phase failed for good after three units had finalized
C6_Witness ==
    /\ ExecError
    /\ node = "WriterNode"
    /\ llm.status = "raised"
    /\ {"materials", "analysis", "outline"} \subseteq DOMAIN shared

\* C7: in one activation of AnalystNode or ArchitectNode, or for one sub-item
\* of WriterNode, configured with max_retries = n, call_llm is invoked at most
\* n times.
C7_AtMostMaxRetriesCalls ==
    node \in {"AnalystNode", "ArchitectNode", "WriterNode"} =>
        calls <= MaxRetriesOf(flow, node)

\* what a unit's prepare phase requires is absent or empty in the store
UpstreamMissing(n, store) ==
    CASE n = "AnalystNode" ->
           \/ "materials" \notin DOMAIN store
           \/ "raw_content" \notin DOMAIN store["materials"]
           \/ store["materials"]["raw_content"] = ""
      [] n = "ArchitectNode" ->
           /\ \/ "analysis" \notin DOMAIN store
              \/ "summary" \notin DOMAIN store["analysis"]
              \/ store["analysis"]["summary"] = ""
           /\ \/ "input" \notin DOMAIN store
              \/ "outline_file" \notin DOMAIN store["input"]
              \/ store["input"]["outline_file"] = ""
      [] n = "WriterNode" ->
           \/ "outline" \notin DOMAIN store
           \/ /\ "object" \notin DOMAIN store["outline"]
              /\ \/ "chapters" \notin DOMAIN store["outline"]
                 \/ store["outline"]["chapters"] = <<>>
      [] n = "AssembleReportNode" ->
           \/ "writing" \notin DOMAIN store
           \/ "chapters" \notin DOMAIN store["writing"]
           \/ DOMAIN store["writing"]["chapters"] = {}
      [] OTHER -> FALSE

\* C8: the prepare phase of AnalystNode, ArchitectNode, WriterNode and
\* AssembleReportNode fails whenever the upstream data it requires is absent
\* or empty; the execute phase is then never invoked, the failure is not
\* retried (the failed activation is the end of the run) and the shared store
\* is left exactly as it was.
C8_PrepFailsOnMissingUpstream ==
    /\ [][(phase = "prep" /\ UpstreamMissing(node, shared)) =>
            /\ phase' = "failed"
            /\ error' = Some([kind |-> "ValueError", node |-> node, phase |-> "prep"])
            /\ shared' = shared
            /\ history' = Append(history, node)
            /\ <<prep_res', exec_res', calls', cur_retry', waits'>>
                 = <<None, None, 0, 0, <<>>>>]_vars
    /\ [][phase # "failed"]_vars

\* the writer was activated on a store whose outline compartment holds neither
\* an outline object nor a legacy chapter, and failed in prepare
C8_Witness ==
    /\ node = "WriterNode"
    /\ phase = "failed"
    /\ error # None /\ error[1].phase = "prep"
    /\ "outline" \in DOMAIN shared
    /\ UpstreamMissing("WriterNode", shared)
    /\ "materials" \in DOMAIN shared

\* C9: in a WriterNode activation, if the execute phase of one sub-item fails
\* terminally, finalize does not run and the writing compartment is neither
\* created nor modified: while the batch executes and after it failed the
\* store has no writing compartment, no execute step changes the store, and
\* nothing runs after the failure.
C9_FailedBatchLeavesNoWriting ==
    /\ []((node = "WriterNode" /\ phase \in {"exec", "failed"}) =>
             "writing" \notin DOMAIN shared)
    /\ [][(node = "WriterNode" /\ phase = "exec") =>
             (shared' = shared /\ node' = node)]_vars
    /\ [][~(node = "WriterNode" /\ phase = "failed")]_vars

\* the second sub-item failed for good after the first one had succeeded
C9_Witness ==
    /\ node = "WriterNode"
    /\ ExecError
    /\ item >= 2
    /\ Len(exec_res) >= 1
    /\ "writing" \notin DOMAIN shared

\* the section indices of the prepared items are pairwise distinct
DistinctIndices(items) ==
    \A i, j \in 1..Len(items) :
       i # j => items[i].section.index # items[j].section.index

C11_ContextFromSameBatch ==
    (/\ node = "WriterNode"
     /\ phase \in {"exec", "post"}
     /\ item >= 2
     /\ Len(exec_res) >= item - 1) =>
        LET items == prep_res[1] IN
        items[item].previous_summary =
            Some([title |-> items[item - 1].section.title,
                  excerpt |-> Excerpt(exec_res[item - 1])])

\* the leaves of the outline object held in the store, in flatten order
StoredLeaves == flatten(shared["outline"]["object"])

\* C12: once the writing stage has finalized, every leaf Section of the outline
\* held in the store has its content populated with the text written for it.
C12_LeafContentAssigned ==
    (/\ "writing" \in DOMAIN shared
     /\ "outline" \in DOMAIN shared
     /\ "object" \in DOMAIN shared["outline"]) =>
        \A k \in 1..Len(StoredLeaves) :
           /\ StoredLeaves[k].content # None
           /\ StoredLeaves[k].index \in DOMAIN shared["writing"]["sections"]
           /\ StoredLeaves[k].content
                = Some(shared["writing"]["sections"][StoredLeaves[k].index])

\* C13: the finalize phase of every stage writes its own compartment and no
\* other: after a post step the store has the compartments it had plus the
\* unit's own (PrintSummaryNode has none), every other compartment, input
\* included, is what it was, and no step of a run removes a compartment or an
\* entry of a compartment.
C13_PostWritesOwnCompartmentOnly ==
    /\ [][phase = "post" =>
            /\ DOMAIN shared' = DOMAIN shared \cup Owns(node)
            /\ \A c \in DOMAIN shared \ Owns(node) : shared'[c] = shared[c]]_vars
    /\ [][/\ DOMAIN shared \subseteq DOMAIN shared'
          /\ \A c \in DOMAIN shared : DOMAIN shared[c] \subseteq DOMAIN shared'[c]]_vars

\* the analyst finalized on a store that held the other stages' compartments
C13_Witness ==
    /\ history = <<"AnalystNode">>
    /\ phase = "done"
    /\ {"input", "materials", "analysis", "outline", "writing"} \subseteq DOMAIN shared
    /\ shared["analysis"]["summary"] = exec_res[1]

\* the units that finalized before the current one was activated
Finalized == { history[k] : k \in 1..(Len(history) - 1) }

\* C14: whenever a run of the full flow aborts, the compartments of the units
\* that had finalized are still in the store, and no report has been emitted:
\* the output compartment holds no report text and no report file was written.
C14_AbortEmitsNoReport ==
    (flow = "full" /\ phase = "failed") =>
        /\ \A u \in Finalized : Owns(u) \subseteq DOMAIN shared
        /\ ~("output" \in DOMAIN shared /\ "report" \in DOMAIN shared["output"])
        /\ files \subseteq {"conversion_info.json", "outline.yaml"}

C16_MalformedResponseNotRetried ==
    (node = "ArchitectNode" /\ cause = Some("JSONDecodeError")) =>
        /\ phase = "failed"
        /\ error = Some([kind |-> "ValueError", node |-> "ArchitectNode",
                         phase |-> "exec"])
        /\ cur_retry = 0

\* C17: for an outline with N leaves, N >= 10 included, the report body that
\* AssembleReportNode.exec assembles after WriterNode finalized has N blocks,
\* and its k-th block is the text written for the k-th leaf in flatten order.
C17_AssemblyInFlattenOrder ==
    (node = "AssembleReportNode" /\ phase = "post") =>
        LET body == exec_res[1].report_content IN
        /\ Len(body) = Len(StoredLeaves)
        /\ \A k \in 1..Len(body) :
              /\ body[k].response.text_for = StoredLeaves[k].title
              /\ body[k] = section_content(StoredLeaves[k],
                                           [text_for |-> StoredLeaves[k].title,
                                            heading |-> llmHeading])

\* a report of eleven blocks was assembled, the tenth leaf being "1.10"
C17_Witness ==
    /\ node = "AssembleReportNode"
    /\ phase = "post"
    /\ Len(exec_res[1].report_content) = 11
    /\ StoredLeaves[10].index = <<"1", ".", "1", "0">>
    /\ exec_res[1].report_content[10].response.text_for = StoredLeaves[10].title

\* the chapter indices of legacy outline L are 1..N in order
Sequential(L) == \A i \in 1..Len(L.chapters) : L.chapters[i].index = i

\* C18: for a legacy outline L, L.to_hierarchical().to_legacy() has the title
\* and the records of L in the same order with indices renumbered 1..N, hence
\* equals L when L's indices are 1..N in order; every intermediate Section is
\* a top-level section without children whose index is str(chapter index).
C18_LegacyRoundTrip ==
    lib.op = "to_hierarchical.to_legacy" =>
        LET L == lib.args
            H == lib.result.hierarchical
            B == lib.result.legacy
        IN /\ Len(H.sections) = Len(L.chapters)
           /\ \A i \in 1..Len(H.sections) :
                 /\ H.sections[i].subsections = <<>>
                 /\ H.sections[i].index = str(L.chapters[i].index)
                 /\ get_heading_level(H.sections[i]) = 1
           /\ B.title = L.title
           /\ Len(B.chapters) = Len(L.chapters)
           /\ \A i \in 1..Len(B.chapters) :
                 B.chapters[i] = [L.chapters[i] EXCEPT !.index = i]
           /\ Sequential(L) => B = L

\* a legacy outline with indices 3, 1 and a text went through the round trip
C18_Witness ==
    /\ lib.op = "to_hierarchical.to_legacy"
    /\ Len(lib.args.chapters) = 2
    /\ lib.args.chapters[1].index = 3
    /\ lib.args.chapters[2].index = 1
    /\ lib.args.chapters[1].content = Some("text")
    /\ lib.result.legacy.chapters[1].index = 1

\* C19: for every outline O, reading back what was written for O, in either
\* file format, yields an outline equal to O: same title, same tree, same
\* index, title, description and content (absent content included) at every
\* node, the type entry of the file playing no part.
C19_SerializerRoundTrip ==
    lib.op = "save_outline.load_outline" =>
        /\ lib.result.raised = None
        /\ lib.result.outline = Some(lib.args.outline)

\* a nested outline with a number-like title and texts went through a YAML file
C19_Witness ==
    /\ lib.op = "save_outline.load_outline"
    /\ lib.args.format = "yaml"
    /\ lib.args.outline.title = <<"7">>
    /\ Len(lib.args.outline.sections) = 1
    /\ Len(lib.args.outline.sections[1].subsections) = 2
    /\ lib.args.outline.sections[1].subsections[2].content = Some(<<"4", "2">>)
    /\ lib.args.outline.sections[1].content = None
    /\ lib.result.outline # None

\* path p is visited before path q in depth-first pre-order
PreOrderBefore(p, q) ==
    \/ Len(p) < Len(q) /\ SubSeq(q, 1, Len(p)) = p
    \/ Before(p, q)

\* the paths of the sections of outline O whose index is exactly the string p
IndexMatches(O, p) ==
    { q \in PathsIn(O.sections) : SectionAt(O.sections, q).index = p }

\* C20: get_section_by_index(p) returns the first section in depth-first
\* pre-order, leaf or not, whose index is exactly the string p, and none if
\* and only if no section has index p.
C20_GetSectionByIndex ==
    lib.op = "get_section_by_index" =>
        LET O == lib.args.outline
            found == IndexMatches(O, lib.args.index)
        IN /\ (lib.result = None) <=> (found = {})
           /\ found # {} =>
                 \E q \in found :
                    /\ \A r \in found \ {q} : PreOrderBefore(q, r)
                    /\ lib.result = Some(SectionAt(O.sections, q))

\* "1.10" was asked of an outline that has "1.1": nothing was found
C20_Witness ==
    /\ lib.op = "get_section_by_index"
    /\ lib.args.index = <<"1", ".", "1", "0">>
    /\ IndexMatches(lib.args.outline, <<"1", ".", "1">>) # {}
    /\ lib.result = None

\* the dots of index string t, counted one character at a time
Dots(t) == Len(SelectSeq(t, LAMBDA ch : ch = "."))

\* C21: get_heading_level() of a section is min(d + 1, 6), d the number of
\* dots in its index: 3 for "3.3.3", 1 for "3", 6 from five dots on; it lies
\* in 1..6 and two sections with the same index string have the same level.
C21_HeadingLevel ==
    lib.op = "get_heading_level" =>
        LET d == Dots(lib.args.section.index)
            level == lib.result.level
        IN /\ level \in 1..6
           /\ (d + 1 <= 6) => level = d + 1
           /\ (d >= 5) => level = 6
           /\ lib.args.section.index = <<"3", ".", "3", ".", "3">> => level = 3
           /\ lib.args.section.index = <<"3">> => level = 1
           /\ lib.result.twin = level

\* an index eight levels deep was asked for its heading level: 6
C21_Witness ==
    /\ lib.op = "get_heading_level"
    /\ Dots(lib.args.section.index) = 7
    /\ lib.args.section.index[1] = "1"
    /\ lib.args.section # lib.args.twin
    /\ lib.result.level = 6

C23_FailureOnStderr ==
    (proc.status = "exited" /\ error # None) =>
        /\ proc.code # Some(0)
        /\ \E k \in 1..Len(proc.stderr) : proc.stderr[k].error = error

\* C24: constructing a ReportOutline from a title and a list of legacy
\* Chapter records, with no sections given, succeeds, and the chapters of the
\* outline are those records in order.
C24_OutlineFromLegacyChapters ==
    (/\ lib.op = "ReportOutline"
     /\ Has(lib.args, "title") /\ Has(lib.args, "chapters")
     /\ ~Has(lib.args, "sections")) =>
        /\ lib.result.raised = None
        /\ lib.result.object # None
        /\ lib.result.chapters = Some(lib.args["chapters"])

\* C25: once ArchitectNode and WriterNode have both finalized on a hierarchical
\* outline with N leaves, writing.chapters has exactly the keys "1".."N", and
\* writing.chapters[str(i)] is the content written for the leaf that the
\* outline.chapters record with index i was made from.
C25_ChapterNumberingAgrees ==
    (Has(shared, "writing") /\ HasStoredOutline) =>
        LET O == StoredOutline
            N == Cardinality(LeafPaths(O))
            chapters == shared["writing"]["chapters"]
            records == shared["outline"]["chapters"]
        IN /\ DOMAIN chapters = { str(i) : i \in 1..N }
           /\ Len(records) = N
           /\ \A p \in LeafPaths(O) :
                 LET i == LeafRank(O, p)
                     leaf == SectionAt(O.sections, p)
                 IN /\ records[i].index = i
                    /\ records[i].title = leaf.title
                    /\ records[i].description = leaf.description
                    /\ chapters[str(i)].response.text_for = leaf.title

\* both units finalized on a nested outline with three leaves
C25_Witness ==
    /\ node = "AssembleReportNode"
    /\ HasStoredOutline
    /\ Has(shared, "writing")
    /\ Cardinality(LeafPaths(StoredOutline)) = 3
    /\ Len(StoredOutline.sections) = 2
    /\ Cardinality(DOMAIN shared["writing"]["chapters"]) = 3
    /\ shared["outline"]["chapters"][3].index = 3

\* C26: for every value of max_retries, call_llm_with_retry ends by returning
\* the result of a call_llm attempt or by raising again the exception of its
\* last attempt; the raise after the loop is never reached and call_llm is
\* attempted at least once.
C26_RetryLoopNeverFallsThrough ==
    lib.op = "call_llm_with_retry" =>
        /\ lib.result.status \in {"returned", "raised"}
        /\ lib.result.calls >= 1
        /\ lib.result.status = "raised" => lib.result.failed = lib.result.calls

\* C27: the snapshot of the store handed to persistence after a successful run
\* has every compartment of the store with its contents, except that the
\* materials compartment lacks raw_content; the materials compartment itself,
\* with file_count, converted_files and dir, is in the snapshot, and the live
\* store still has its raw_content.
C27_SnapshotKeepsMaterials ==
    proc.snapshot # None =>
        LET snapshot == proc.snapshot[1] IN
        /\ DOMAIN snapshot = DOMAIN shared
        /\ \A k \in DOMAIN snapshot : k # "materials" => snapshot[k] = shared[k]
        /\ Has(shared, "materials") =>
              /\ Has(shared["materials"], "raw_content")
              /\ Has(snapshot, "materials")
              /\ DOMAIN snapshot["materials"] = DOMAIN shared["materials"] \ {"raw_content"}
              /\ {"file_count", "converted_files", "dir"} \subseteq DOMAIN snapshot["materials"]
              /\ \A k \in DOMAIN snapshot["materials"] :
                    snapshot["materials"][k] = shared["materials"][k]

\* C28: with conversion caching enabled, across any sequence of load_materials
\* runs over a directory, what a run returns for a convertible file on a cache
\* hit is what converting that file (with the content it has) produced, and a
\* file whose hash differs from its cached hash is converted again; also when
\* two source files have the same stem.
C28_CacheHitReturnsOwnConversion ==
    /\ \A f \in conv.last.hits :
          /\ conv.last.returned[f].of = f
          /\ conv.last.returned[f].content = conv.last.seen[f]
    /\ conv.last.changed \subseteq conv.last.reconverted

\* the keys ArchitectNode.post stores for a validated outline
OutlineKeys == {"title", "sections", "object", "chapters"}

\* C29: ArchitectNode.post is all-or-nothing on the outline compartment: once
\* it has returned "default" the compartment holds title, sections, object and
\* chapters; when it raised, the compartment holds none of them, and a failure
\* of saving the outline file is not reported as an invalid outline structure
\* (the ValueError of post).
C29_ArchitectPostAllOrNothing ==
    /\ (Has(shared, "outline") /\ node # "ArchitectNode") =>
          OutlineKeys \subseteq DOMAIN shared["outline"]
    /\ (/\ error # None
        /\ error[1].node = "ArchitectNode"
        /\ error[1].phase = "post") =>
          /\ Has(shared, "outline")
          /\ OutlineKeys \cap DOMAIN shared["outline"] = {}
          /\ cause = Some("OSError") => error[1].kind # "ValueError"

RECURSIVE Chain(_, _, _)
\* the units met from unit n on along the "default" edges of flow f, k at most
Chain(f, n, k) ==
    IF n = NoNode \/ k = 0 THEN <<>>
    ELSE <<n>> \o Chain(f, Successor(f, n), k - 1)

\* the longest walk a flow with these units could take without repeating one,
\* and one step more
ChainOf(f) == Chain(f, "LoadMaterialsNode", Cardinality(Units) + 1)

\* the number of units of each flow
ActivationBound(f) ==
    CASE f = "full" -> 6 [] f = "minimal" -> 4 [] f = "outline_only" -> 3

\* the run has ended, with success or with a failure
Terminated == phase \in {"done", "failed"}

\* the walk from LoadMaterialsNode along the "default" edges of the flow meets
\* no unit twice and ends after 6, 4 or 3 units; the units activated so far
\* are the first units of that walk, each once
LinearRun ==
    LET chain == ChainOf(flow) IN
    /\ Len(chain) = ActivationBound(flow)
    /\ \A i, j \in 1..Len(chain) : i # j => chain[i] # chain[j]
    /\ IsPrefix(history, chain)
    /\ Len(history) <= ActivationBound(flow)
    /\ \A i, j \in 1..Len(history) : i # j => history[i] # history[j]
    /\ node \in Units => \E i \in 1..Len(chain) : chain[i] = node

\* C30: each of the three flows starts at LoadMaterialsNode and is a linear
\* chain of "default" edges without a cycle; every run activates each unit at
\* most once, makes at most 6, 4 or 3 activations (full, minimal,
\* outline-only), and terminates, with success or with a failure.
C30_LinearFlowsTerminate == []LinearRun /\ <>Terminated

\* a run of the minimal flow ended after activating its four units
C30_Witness ==
    /\ flow = "minimal"
    /\ phase = "done"
    /\ history = <<"LoadMaterialsNode", "AnalystNode", "ArchitectNode", "PrintSummaryNode">>
====
